---- MODULE Spec2Model ----
(***************************************************************************)
(* Simulation core of the studio-typo website: the stable-fluids solver    *)
(* (fluid-solver.js), the Verlet particle system, the boids flock          *)
(* (boids.js) and the simplex-noise tables (noise.js).                     *)
(*                                                                         *)
(* Numbers.  JavaScript numbers are modelled as decimal fixed-point        *)
(* integers: the integer v stands for the real v / FS.  Every product and  *)
(* quotient is rounded to the nearest unit, as every floating-point        *)
(* operation rounds to the nearest representable value.  The elements of   *)
(* a Float32Array have a bounded range: a value stored beyond F32Max       *)
(* becomes an infinity, and arithmetic on infinities yields NaN, as in     *)
(* IEEE 754.                                                               *)
(***************************************************************************)
EXTENDS Integers, Sequences, FiniteSets, TLC

VARIABLES
  solver,     \* the FluidSolver object: size, dt, diff, visc and its six fields
  stepLog,    \* the phases, sweeps and boundary passes of the last step()
  fluidCall,  \* the last FluidSolver call and its arguments
  added,      \* total amount passed to addDensity since construction / clear()
  nAdds,      \* addDensity / addVelocity calls made
  nSteps,     \* step() calls made
  held,       \* the array the last getDensity() returned, and what it held then
  nReads      \* getDensity() calls made

fluidVars == <<solver, stepLog, fluidCall, added, nAdds, nSteps, held, nReads>>

VARIABLES
  vsys,          \* the VerletSystem: particles, constraints, settings, bounds
  created,       \* per particle, the position and pinned flag it was created with
  verletCall,    \* the last call on the system, a particle or a constraint
  nVerletCalls,  \* calls made on the VerletSystem
  nMoves,        \* Particle.applyForce calls made directly on an endpoint
  nSolves,       \* Constraint.solve calls made directly
  detached       \* particles that clear() dropped and a host still holds

verletVars ==
  <<vsys, created, verletCall, nVerletCalls, nMoves, nSolves, detached>>

VARIABLES
  flock,       \* the Flock: width, height, boids, weights, radii, trails
  flockCall,   \* the last call on the flock and its arguments
  nUpdates,    \* Flock.update calls, and Boid.update calls made directly
  nResizes,    \* Flock.resize calls made
  configured,  \* the options object the Flock constructor was given
  pushed       \* per boid, the forces passed to applyForce since its last update

flockVars == <<flock, flockCall, nUpdates, nResizes, configured, pushed>>

VARIABLES
  tables,       \* the module state of noise.js: perm and gradP
  lastSeed,     \* the value of the last seed(value) call
  noiseCall,    \* the last call into noise.js, its arguments and its result
  seeded,       \* the seed values applied so far
  firstTables,  \* per seed value, the tables its first seed(value) built
  valued,       \* the (seed value, point) pairs noise2D was evaluated for
  firstValues,  \* per such pair, what the first noise2D call returned
  nNoiseCalls,  \* calls made into noise.js
  ownSeed       \* per consumer constructed so far, the value it seeded with

noiseVars == <<tables, lastSeed, noiseCall, seeded, firstTables, valued,
               firstValues, nNoiseCalls, ownSeed>>

VARIABLES
  host,       \* a host on the page (FluidSim, Creatures or PhysicsType): its
              \* animationFrame handle, its pending frame callbacks, its counts
  running,    \* the task the page is executing, and how far it has got
  hostCall    \* the last event handler of the host that ran

VARIABLES
  tracker,    \* the TYPO tracker: currentIndex, timeoutId, the timers set
  typed,      \* the last four keys passed to track(), each with whether it
              \* came less than the timeout after the one before
  elapsed,    \* whether the timeout has passed since the last track() call
  trackCall,  \* the last call on the tracker, and whether onComplete ran in it
  nKeys,      \* track() calls, or events and calls on the App, so far
  app,        \* the App: state, previousState, pressed keys, intro sequence
  appCall     \* the last handler of the App that ran, and the App before it

appVars == <<tracker, typed, elapsed, trackCall, nKeys, app, appCall>>

pageVars == <<host, running, hostCall, appVars>>

vars == <<fluidVars, verletVars, flockVars, noiseVars, pageVars>>

\* what the calls on one engine leave alone
notFluid == <<verletVars, flockVars, noiseVars, pageVars>>
notVerlet == <<fluidVars, flockVars, noiseVars, pageVars>>
notFlock == <<fluidVars, verletVars, noiseVars, pageVars>>
notNoise == <<fluidVars, verletVars, flockVars, pageVars>>
notPage == <<fluidVars, verletVars, flockVars, noiseVars, appVars>>
notApp == <<fluidVars, verletVars, flockVars, noiseVars, host, running,
            hostCall>>

----------------------------------------------------------------------------
(* Bounds of the exploration *)

MaxAdds == 2
MaxSteps == 2
MaxVerletCalls == 4
MaxMoves == 2
MaxSolves == 2
MaxUpdates == 2
MaxResizes == 1
MaxNoiseCalls == 4
MaxReads == 1
MaxPushes == 1
MaxForces == 2
MaxFrames == 2

----------------------------------------------------------------------------
(* Number representation *)

FS == 100
F32Max == 100000
PInf == 1000000000
NInf == -PInf
NaN == PInf + 1

Max(a, b) == IF a >= b THEN a ELSE b
Min(a, b) == IF a <= b THEN a ELSE b
Abs(a) == IF a < 0 THEN -a ELSE a

\* n / d rounded to the nearest integer, ties away from zero (d > 0)
RoundDiv(n, d) ==
  IF n >= 0 THEN (n + d \div 2) \div d ELSE -(((-n) + d \div 2) \div d)

IsFinite(v) == v # NaN /\ v # PInf /\ v # NInf

FNeg(a) == IF a = NaN THEN NaN ELSE -a

FAdd(a, b) ==
  IF a = NaN \/ b = NaN THEN NaN
  ELSE IF a = PInf THEN (IF b = NInf THEN NaN ELSE PInf)
  ELSE IF a = NInf THEN (IF b = PInf THEN NaN ELSE NInf)
  ELSE IF b = PInf \/ b = NInf THEN b
  ELSE a + b

FSub(a, b) == FAdd(a, FNeg(b))

FMul(a, b) ==
  IF a = NaN \/ b = NaN THEN NaN
  ELSE IF ~IsFinite(a) \/ ~IsFinite(b)
    THEN IF a = 0 \/ b = 0 THEN NaN
         ELSE IF (a > 0) = (b > 0) THEN PInf ELSE NInf
  ELSE RoundDiv(a * b, FS)

\* Math.min / Math.max: NaN if either argument is NaN
FMin(a, b) == IF a = NaN \/ b = NaN THEN NaN ELSE Min(a, b)
FMax(a, b) == IF a = NaN \/ b = NaN THEN NaN ELSE Max(a, b)

\* the value an element of a Float32Array holds after v is assigned to it
F32(v) ==
  IF v = NaN THEN NaN
  ELSE IF v > F32Max THEN PInf
  ELSE IF v < -F32Max THEN NInf
  ELSE v

\* Math.floor of a finite fixed-point number, as a plain integer
Floor(v) == v \div FS

\* the largest r in lo .. hi with r * r <= n
RECURSIVE SqrtSearch(_, _, _)
SqrtSearch(n, lo, hi) ==
  IF lo >= hi THEN lo
  ELSE LET mid == (lo + hi + 1) \div 2
       IN  IF mid * mid <= n THEN SqrtSearch(n, mid, hi)
           ELSE SqrtSearch(n, lo, mid - 1)

\* the square root of n >= 0, rounded to the nearest integer
Sqrt(n) ==
  CHOOSE q \in {IF n - r * r > r THEN r + 1 ELSE r :
                 r \in {SqrtSearch(n, 0, Min(n, 46340))}} : TRUE

\* Math.sqrt(dx * dx + dy * dy) of two fixed-point numbers
Hypot(dx, dy) == Sqrt(dx * dx + dy * dy)

\* a * b of two finite fixed-point numbers
Mul(a, b) == RoundDiv(a * b, FS)

----------------------------------------------------------------------------
(* FluidSolver (fluid-solver.js) *)

FieldNames == {"density", "densityPrev", "vx", "vy", "vxPrev", "vyPrev"}

Cells(N) == 0 .. (N * N - 1)

\* the arrays the constructor allocates, numbered in the order of allocation
Allocated ==
  [ density |-> 1, densityPrev |-> 2, vx |-> 3, vy |-> 4, vxPrev |-> 5,
    vyPrev |-> 6 ]

\* constructor(size, diffusion, viscosity): six zeroed Float32Array(size*size);
\* arrays tells which array each field refers to
NewFluidSolver(size, diffusion, viscosity) ==
  [ size |-> size, dt |-> RoundDiv(2 * FS, 10), diff |-> diffusion,
    visc |-> viscosity, arrays |-> Allocated,
    density |-> [c \in Cells(size) |-> 0],
    densityPrev |-> [c \in Cells(size) |-> 0],
    vx |-> [c \in Cells(size) |-> 0],
    vy |-> [c \in Cells(size) |-> 0],
    vxPrev |-> [c \in Cells(size) |-> 0],
    vyPrev |-> [c \in Cells(size) |-> 0] ]

IdxNoClamp(N, x, y) == x + y * N

\* idx(x, y): both coordinates clamped to [0, size-1]
idx(N, x, y) ==
  LET cx == Max(0, Min(N - 1, x))
      cy == Max(0, Min(N - 1, y))
  IN  cx + cy * N

\* the (i, j) pairs of the interior double loop, j outer, i inner
InteriorCells(N) ==
  [k \in 1 .. ((N - 2) * (N - 2)) |->
     <<1 + ((k - 1) % (N - 2)), 1 + ((k - 1) \div (N - 2))>>]

\* v evaluated once and handed to F: the sequencing of statements
Bind(v, F(_)) == CHOOSE r \in {F(w) : w \in {v}} : TRUE

Logged(T, e) == [T EXCEPT !.log = Append(@, e)]

MirrorNever(negate, v) == v

MirrorAlways(negate, v) == FNeg(v)

\* b === k ? -v : v, the sign convention of setBnd
Mirror(negate, v) == IF negate THEN FNeg(v) ELSE v

\* the cell (i, j) lies in the interior 1 .. N-2 on both axes
Interior(N, c) == (c % N) \in 1 .. (N - 2) /\ (c \div N) \in 1 .. (N - 2)

\* the two edge loops of setBnd: every non-corner edge cell takes the value of
\* its interior neighbour, negated on the walls b selects.  The loops write
\* edge cells and read interior cells only, so their order is immaterial.
setBndEdges(N, b, x) ==
  [c \in DOMAIN x |->
     LET i == c % N
         j == c \div N
     IN  IF i \in 1 .. (N - 2) /\ j = 0
           THEN Mirror(b = 2, x[idx(N, i, 1)])
         ELSE IF i \in 1 .. (N - 2) /\ j = N - 1
           THEN Mirror(b = 2, x[idx(N, i, N - 2)])
         ELSE IF j \in 1 .. (N - 2) /\ i = 0
           THEN Mirror(b = 1, x[idx(N, 1, j)])
         ELSE IF j \in 1 .. (N - 2) /\ i = N - 1
           THEN Mirror(b = 1, x[idx(N, N - 2, j)])
         ELSE x[c]]

\* 0.5 * (u + v) stored into a Float32Array element
Half(u, v) == F32(FMul(FS \div 2, FAdd(u, v)))

\* the four corner assignments of setBnd, each the mean of its two edge
\* neighbours (no corner reads another corner when N >= 3)
setBndCorners(N, x) ==
  [c \in DOMAIN x |->
     IF c = idx(N, 0, 0) THEN Half(x[idx(N, 1, 0)], x[idx(N, 0, 1)])
     ELSE IF c = idx(N, 0, N - 1)
       THEN Half(x[idx(N, 1, N - 1)], x[idx(N, 0, N - 2)])
     ELSE IF c = idx(N, N - 1, 0)
       THEN Half(x[idx(N, N - 2, 0)], x[idx(N, N - 1, 1)])
     ELSE IF c = idx(N, N - 1, N - 1)
       THEN Half(x[idx(N, N - 2, N - 1)], x[idx(N, N - 1, N - 2)])
     ELSE x[c]]

\* setBnd(b, x) on the array x: the edges, then the four corners
setBndArr(N, b, x) ==
  Bind(setBndEdges(N, b, x), LAMBDA x1 : setBndCorners(N, x1))

\* setBnd(b, x) on the field named xn of the solver in T
setBnd(T, b, xn) ==
  Bind(setBndArr(T.s.size, b, T.s[xn]), LAMBDA x1 :
  Logged([T EXCEPT !.s[xn] = x1], <<"setBnd", xn>>))

\* one Gauss-Seidel sweep of linSolve over the interior, in place
RECURSIVE sweep(_, _, _, _, _, _)
sweep(s, xn, x0n, a, cRecip, k) ==
  LET N == s.size
      cells == InteriorCells(N)
  IN  IF k > Len(cells) THEN s
      ELSE LET i == cells[k][1]
               j == cells[k][2]
               x == s[xn]
               nb == FAdd(FAdd(FAdd(x[idx(N, i + 1, j)], x[idx(N, i - 1, j)]),
                               x[idx(N, i, j + 1)]), x[idx(N, i, j - 1)])
               v == FMul(FAdd(s[x0n][idx(N, i, j)], FMul(a, nb)), cRecip)
           IN  Bind([s EXCEPT ![xn][idx(N, i, j)] = F32(v)],
                 LAMBDA s1 : sweep(s1, xn, x0n, a, cRecip, k + 1))

RECURSIVE linSolveIter(_, _, _, _, _, _, _, _)
linSolveIter(T, b, xn, x0n, a, cRecip, k, iters) ==
  IF k >= iters THEN T
  ELSE Bind(sweep(T.s, xn, x0n, a, cRecip, 1), LAMBDA s1 :
       Bind(setBnd(Logged([T EXCEPT !.s = s1], <<"sweep", xn>>), b, xn),
         LAMBDA T1 : linSolveIter(T1, b, xn, x0n, a, cRecip, k + 1, iters)))

linSolve3(T, b, xn, x0n, a, c) ==
  linSolveIter(T, b, xn, x0n, a, RoundDiv(FS * FS, c), 0, 3)

\* linSolve(b, x, x0, a, c): cRecip = 1.0 / c, then 4 sweeps, each followed
\* by setBnd
linSolve(T, b, xn, x0n, a, c) ==
  linSolveIter(T, b, xn, x0n, a, RoundDiv(FS * FS, c), 0, 4)

\* diffuse(b, x, x0, diff)
diffuse(T, b, xn, x0n, diff) ==
  LET N == T.s.size
      a == FMul(FMul(T.s.dt, diff), (N - 2) * (N - 2) * FS)
  IN  Bind(Logged(T, <<"diffuse", xn>>), LAMBDA T0 :
        linSolve(T0, b, xn, x0n, a, FS + 6 * a))

\* first loop of project: div from the central differences of (vx, vy), p
\* zeroed, on the interior (div and p are not the arrays read)
projectDiv(s, vxn, vyn, pn, divn) ==
  LET N == s.size
      h == RoundDiv(FS, N)
      d(i, j) == FSub(FAdd(FSub(s[vxn][idx(N, i + 1, j)],
                                s[vxn][idx(N, i - 1, j)]),
                           s[vyn][idx(N, i, j + 1)]),
                      s[vyn][idx(N, i, j - 1)])
  IN  [s EXCEPT
         ![divn] = [c \in DOMAIN @ |->
                      IF Interior(N, c)
                      THEN F32(FMul(FMul(-(FS \div 2), h), d(c % N, c \div N)))
                      ELSE @[c]],
         ![pn] = [c \in DOMAIN @ |-> IF Interior(N, c) THEN 0 ELSE @[c]]]

\* second loop of project: the gradient of p subtracted from (vx, vy) on the
\* interior (p is not written)
projectGrad(s, vxn, vyn, pn) ==
  LET N == s.size
      p == s[pn]
      gx(i, j) == FMul(FMul(FS \div 2,
                            FSub(p[idx(N, i + 1, j)], p[idx(N, i - 1, j)])),
                       N * FS)
      gy(i, j) == FMul(FMul(FS \div 2,
                            FSub(p[idx(N, i, j + 1)], p[idx(N, i, j - 1)])),
                       N * FS)
  IN  [s EXCEPT
         ![vxn] = [c \in DOMAIN @ |->
                     IF Interior(N, c)
                     THEN F32(FSub(@[c], gx(c % N, c \div N))) ELSE @[c]],
         ![vyn] = [c \in DOMAIN @ |->
                     IF Interior(N, c)
                     THEN F32(FSub(@[c], gy(c % N, c \div N))) ELSE @[c]]]

\* project(vx, vy, p, div)
project(T, vxn, vyn, pn, divn) ==
  Bind(projectDiv(T.s, vxn, vyn, pn, divn), LAMBDA s1 :
  Bind(setBnd([s |-> s1, log |-> Append(T.log, <<"project", vxn>>)], 0, divn),
    LAMBDA T1 :
  Bind(setBnd(T1, 0, pn), LAMBDA T2 :
  Bind(linSolve(T2, 0, pn, divn, FS, 6 * FS), LAMBDA T3 :
  Bind(projectGrad(T3.s, vxn, vyn, pn), LAMBDA s4 :
  Bind(setBnd([T3 EXCEPT !.s = s4], 1, vxn), LAMBDA T5 :
  setBnd(T5, 2, vyn)))))))

\* the bilinear interpolation of advect for the traced-back point (x, y)
advectValue(N, d0, x, y) ==
  IF x = NaN \/ y = NaN THEN NaN
  ELSE LET i0 == Floor(x)
           i1 == i0 + 1
           j0 == Floor(y)
           j1 == j0 + 1
           s1 == x - i0 * FS
           s0 == FS - s1
           t1 == y - j0 * FS
           t0 == FS - t1
       IN  FAdd(FMul(s0, FAdd(FMul(t0, d0[idx(N, i0, j0)]),
                              FMul(t1, d0[idx(N, i0, j1)]))),
                FMul(s1, FAdd(FMul(t0, d0[idx(N, i1, j0)]),
                              FMul(t1, d0[idx(N, i1, j1)]))))

\* x = Math.max(0.5, Math.min(N - 1.5, i - dt0 * v))
traceBack(N, dt0, i, v) ==
  FMax(FS \div 2, FMin(N * FS - (3 * FS) \div 2, FSub(i * FS, FMul(dt0, v))))

\* the interior loop of advect (d is none of the arrays read)
advectLoop(s, dn, d0n, vxn, vyn) ==
  LET N == s.size
      dt0 == FMul(s.dt, (N - 2) * FS)
  IN  [s EXCEPT
         ![dn] = [c \in DOMAIN @ |->
                    IF Interior(N, c)
                    THEN F32(advectValue(N, s[d0n],
                               traceBack(N, dt0, c % N, s[vxn][c]),
                               traceBack(N, dt0, c \div N, s[vyn][c])))
                    ELSE @[c]]]

\* advect(b, d, d0, vx, vy)
advect(T, b, dn, d0n, vxn, vyn) ==
  Bind(advectLoop(T.s, dn, d0n, vxn, vyn), LAMBDA s1 :
    setBnd([s |-> s1, log |-> Append(T.log, <<"advect", dn>>)], b, dn))

\* step(): the solver after the call, with the log of what it did
step(s) ==
  Bind(diffuse([s |-> s, log |-> <<>>], 1, "vxPrev", "vx", s.visc),
    LAMBDA T1 :
  Bind(diffuse(T1, 2, "vyPrev", "vy", s.visc), LAMBDA T2 :
  Bind(project(T2, "vxPrev", "vyPrev", "vx", "vy"), LAMBDA T3 :
  Bind(advect(T3, 1, "vx", "vxPrev", "vxPrev", "vyPrev"), LAMBDA T4 :
  Bind(advect(T4, 2, "vy", "vyPrev", "vxPrev", "vyPrev"), LAMBDA T5 :
  Bind(project(T5, "vx", "vy", "vxPrev", "vyPrev"), LAMBDA T6 :
  Bind(diffuse(T6, 0, "densityPrev", "density", s.diff), LAMBDA T7 :
  advect(T7, 0, "density", "densityPrev", "vx", "vy"))))))))

\* addDensity(x, y, amount)
addDensity(s, x, y, amount) ==
  LET i == idx(s.size, Floor(x), Floor(y))
  IN  IF i >= 0 /\ i < s.size * s.size
      THEN [s EXCEPT !.density[i] = F32(FAdd(@, amount))]
      ELSE s

\* addVelocity(x, y, amountX, amountY)
addVelocity(s, x, y, amountX, amountY) ==
  LET i == idx(s.size, Floor(x), Floor(y))
  IN  IF i >= 0 /\ i < s.size * s.size
      THEN [s EXCEPT !.vx[i] = F32(FAdd(@, amountX)),
                     !.vy[i] = F32(FAdd(@, amountY))]
      ELSE s

\* a clear() that allocates six new arrays
clearReallocating(s) ==
  [s EXCEPT !.density = [c \in DOMAIN @ |-> 0],
            !.densityPrev = [c \in DOMAIN @ |-> 0],
            !.vx = [c \in DOMAIN @ |-> 0],
            !.vy = [c \in DOMAIN @ |-> 0],
            !.vxPrev = [c \in DOMAIN @ |-> 0],
            !.vyPrev = [c \in DOMAIN @ |-> 0],
            !.arrays = [f \in DOMAIN @ |-> @[f] + Cardinality(FieldNames)]]

\* a getDensity() that hands out a copy, an array no field refers to
getDensityCopy(s) == Cardinality(FieldNames) + 1

\* getDensity(): return this.density, the array itself
getDensity(s) == s.arrays.density

\* clear(): fill(0) on all six fields
clear(s) ==
  [s EXCEPT !.density = [c \in DOMAIN @ |-> 0],
            !.densityPrev = [c \in DOMAIN @ |-> 0],
            !.vx = [c \in DOMAIN @ |-> 0],
            !.vy = [c \in DOMAIN @ |-> 0],
            !.vxPrev = [c \in DOMAIN @ |-> 0],
            !.vyPrev = [c \in DOMAIN @ |-> 0]]

----------------------------------------------------------------------------
(* Verlet engine: Particle, Constraint, VerletSystem *)

\* new Particle(x, y, pinned)
NewParticle(x, y, pinned) ==
  [x |-> x, y |-> y, oldX |-> x, oldY |-> y, pinned |-> pinned, mass |-> FS]

\* Particle.update(friction, gravity): one Verlet integration step
ParticleUpdate(p, friction, gravity) ==
  IF p.pinned THEN p
  ELSE LET vx == Mul(p.x - p.oldX, friction)
           vy == Mul(p.y - p.oldY, friction)
       IN  [p EXCEPT !.oldX = p.x, !.oldY = p.y,
                     !.x = p.x + vx, !.y = p.y + (vy + gravity)]

ParticleApplyForceUnguarded(p, fx, fy) ==
  [p EXCEPT !.x = @ + RoundDiv(fx * FS, p.mass),
            !.y = @ + RoundDiv(fy * FS, p.mass)]

\* Particle.applyForce(fx, fy)
ParticleApplyForce(p, fx, fy) ==
  IF p.pinned THEN p
  ELSE [p EXCEPT !.x = @ + RoundDiv(fx * FS, p.mass),
                 !.y = @ + RoundDiv(fy * FS, p.mass)]

\* a collision that stops the particle at the bound instead of reflecting it
ParticleConstrainNoBounce(p, minX, minY, maxX, maxY, bounce) ==
  IF p.pinned THEN p
  ELSE LET x == IF p.x < minX THEN minX ELSE IF p.x > maxX THEN maxX ELSE p.x
           y == IF p.y < minY THEN minY ELSE IF p.y > maxY THEN maxY ELSE p.y
       IN  [p EXCEPT !.x = x, !.y = y,
                     !.oldX = IF x # p.x THEN x ELSE @,
                     !.oldY = IF y # p.y THEN y ELSE @]

\* Particle.constrain(minX, minY, maxX, maxY, bounce): four tests in a row
ParticleConstrain(p, minX, minY, maxX, maxY, bounce) ==
  IF p.pinned THEN p
  ELSE LET vx == p.x - p.oldX
           vy == p.y - p.oldY
           a == IF p.x < minX
                THEN [p EXCEPT !.x = minX, !.oldX = minX + Mul(vx, bounce)]
                ELSE p
           b == IF a.x > maxX
                THEN [a EXCEPT !.x = maxX, !.oldX = maxX + Mul(vx, bounce)]
                ELSE a
           c == IF b.y < minY
                THEN [b EXCEPT !.y = minY, !.oldY = minY + Mul(vy, bounce)]
                ELSE b
       IN  IF c.y > maxY
           THEN [c EXCEPT !.y = maxY, !.oldY = maxY + Mul(vy, bounce)]
           ELSE c

\* Constraint.getDistance() for the endpoints p1, p2
getDistance(p1, p2) == Hypot(p2.x - p1.x, p2.y - p1.y)

\* new Constraint(p1, p2, stiffness): the endpoints are held by index
NewConstraint(ps, i1, i2, stiffness) ==
  [p1 |-> i1, p2 |-> i2, length |-> getDistance(ps[i1], ps[i2]),
   stiffness |-> stiffness]

OffsetWhole(d, c, dist) == RoundDiv(d * (c.length - dist) * c.stiffness, dist * FS)

\* offset = d * ((length - dist) / dist) * stiffness * 0.5
Offset(d, c, dist) == RoundDiv(d * (c.length - dist) * c.stiffness, 2 * dist * FS)

\* Constraint.solve() on the particles ps
ConstraintSolve(ps, c) ==
  LET dx == ps[c.p2].x - ps[c.p1].x
      dy == ps[c.p2].y - ps[c.p1].y
  IN  Bind(Hypot(dx, dy), LAMBDA dist :
        IF dist = 0 THEN ps
        ELSE Bind(<<Offset(dx, c, dist), Offset(dy, c, dist)>>, LAMBDA o :
             Bind(IF ~ps[c.p1].pinned
                  THEN [ps EXCEPT ![c.p1].x = @ - o[1], ![c.p1].y = @ - o[2]]
                  ELSE ps, LAMBDA ps1 :
               IF ~ps1[c.p2].pinned
               THEN [ps1 EXCEPT ![c.p2].x = @ + o[1], ![c.p2].y = @ + o[2]]
               ELSE ps1)))

NoBounds == [set |-> FALSE, minX |-> 0, minY |-> 0, maxX |-> 0, maxY |-> 0]

\* options.k ?? d
Nullish(options, k, d) == IF k \in DOMAIN options THEN options[k] ELSE d

\* new VerletSystem(options)
NewVerletSystem(options) ==
  [ particles |-> <<>>, constraints |-> <<>>,
    gravity |-> Nullish(options, "gravity", FS \div 2),
    friction |-> Nullish(options, "friction", FS - FS \div 100),
    bounce |-> Nullish(options, "bounce", (8 * FS) \div 10),
    iterations |-> Nullish(options, "iterations", 3),
    bounds |-> IF "bounds" \in DOMAIN options THEN options.bounds ELSE NoBounds ]

\* VerletSystem.addParticle(x, y, pinned)
addParticle(sys, x, y, pinned) ==
  [sys EXCEPT !.particles = Append(@, NewParticle(x, y, pinned))]

\* VerletSystem.addConstraint(p1, p2, stiffness)
addConstraint(sys, i1, i2, stiffness) ==
  [sys EXCEPT !.constraints =
                Append(@, NewConstraint(sys.particles, i1, i2, stiffness))]

\* VerletSystem.applyForce(fx, fy)
applyForce(sys, fx, fy) ==
  [sys EXCEPT !.particles =
                [i \in DOMAIN @ |-> ParticleApplyForce(@[i], fx, fy)]]

\* VerletSystem.applyForceToParticle(index, fx, fy), index counted from 0
applyForceToParticle(sys, index, fx, fy) ==
  IF index + 1 \in DOMAIN sys.particles
  THEN [sys EXCEPT !.particles[index + 1] = ParticleApplyForce(@, fx, fy)]
  ELSE sys

\* the body of the loop of applyRadialForce for one particle
\* the body of the loop without the test dist < radius
RadialForceOnAnyDistance(p, x, y, radius, strength) ==
  IF p.pinned THEN p
  ELSE LET dx == p.x - x
           dy == p.y - y
       IN  Bind(Hypot(dx, dy), LAMBDA dist :
             IF dist > 0
             THEN ParticleApplyForce(p,
                    RoundDiv(dx * (radius - dist) * strength, dist * radius),
                    RoundDiv(dy * (radius - dist) * strength, dist * radius))
             ELSE p)

RadialForceOn(p, x, y, radius, strength) ==
  IF p.pinned THEN p
  ELSE LET dx == p.x - x
           dy == p.y - y
       IN  Bind(Hypot(dx, dy), LAMBDA dist :
             IF dist < radius /\ dist > 0
             THEN ParticleApplyForce(p,
                    RoundDiv(dx * (radius - dist) * strength, dist * radius),
                    RoundDiv(dy * (radius - dist) * strength, dist * radius))
             ELSE p)

\* VerletSystem.applyRadialForce(x, y, radius, strength)
applyRadialForce(sys, x, y, radius, strength) ==
  [sys EXCEPT !.particles =
                [i \in DOMAIN @ |-> RadialForceOn(@[i], x, y, radius, strength)]]

\* for (const c of this.constraints) c.solve(), from the k-th on
RECURSIVE SolveFrom(_, _, _)
SolveFrom(ps, cs, k) ==
  IF k > Len(cs) THEN ps
  ELSE Bind(ConstraintSolve(ps, cs[k]), LAMBDA ps1 : SolveFrom(ps1, cs, k + 1))

\* the relaxation loop of step(): n more passes over the constraints
RECURSIVE Relax(_, _, _)
Relax(ps, cs, n) ==
  IF n <= 0 THEN ps
  ELSE Bind(SolveFrom(ps, cs, 1), LAMBDA ps1 : Relax(ps1, cs, n - 1))

\* a step that applies the bounds before the relaxation passes
verletStepCollideFirst(sys) ==
  Bind([i \in DOMAIN sys.particles |->
          ParticleUpdate(sys.particles[i], sys.friction, sys.gravity)],
    LAMBDA ps1 :
  Bind(IF sys.bounds.set
       THEN [i \in DOMAIN ps1 |->
               ParticleConstrain(ps1[i], sys.bounds.minX, sys.bounds.minY,
                                 sys.bounds.maxX, sys.bounds.maxY, sys.bounce)]
       ELSE ps1,
    LAMBDA ps2 :
      [sys EXCEPT !.particles = Relax(ps2, sys.constraints, sys.iterations)]))

\* a step without its relaxation loop
verletStepNoRelax(sys) ==
  [sys EXCEPT !.particles =
     [i \in DOMAIN @ |-> ParticleUpdate(@[i], sys.friction, sys.gravity)]]

\* VerletSystem.step(): integrate, relax, collide with the bounds
verletStep(sys) ==
  Bind([i \in DOMAIN sys.particles |->
          ParticleUpdate(sys.particles[i], sys.friction, sys.gravity)],
    LAMBDA ps1 :
  Bind(Relax(ps1, sys.constraints, sys.iterations), LAMBDA ps2 :
    [sys EXCEPT !.particles =
       IF sys.bounds.set
       THEN [i \in DOMAIN ps2 |->
               ParticleConstrain(ps2[i], sys.bounds.minX, sys.bounds.minY,
                                 sys.bounds.maxX, sys.bounds.maxY, sys.bounce)]
       ELSE ps2]))

\* VerletSystem.setBounds(minX, minY, maxX, maxY)
setBounds(sys, minX, minY, maxX, maxY) ==
  [sys EXCEPT !.bounds = [set |-> TRUE, minX |-> minX, minY |-> minY,
                          maxX |-> maxX, maxY |-> maxY]]

\* VerletSystem.clear()
verletClear(sys) == [sys EXCEPT !.particles = <<>>, !.constraints = <<>>]

\* the loop of createChain from its i-th particle on; segmentLength is
\* length / segments
RECURSIVE ChainFrom(_, _, _, _, _, _, _, _)
ChainFrom(sys, startX, startY, segmentLength, segments, pinStart, pinEnd, i) ==
  IF i > segments THEN sys
  ELSE LET pinned == (i = 0 /\ pinStart) \/ (i = segments /\ pinEnd)
           s1 == addParticle(sys, startX + i * segmentLength, startY, pinned)
           n == Len(s1.particles)
           s2 == IF i > 0 THEN addConstraint(s1, n - 1, n, FS) ELSE s1
       IN  ChainFrom(s2, startX, startY, segmentLength, segments, pinStart,
                     pinEnd, i + 1)

\* VerletSystem.createChain(startX, startY, length, segments, pinStart, pinEnd)
createChain(sys, startX, startY, length, segments, pinStart, pinEnd) ==
  ChainFrom(sys, startX, startY, RoundDiv(length, segments), segments,
            pinStart, pinEnd, 0)

\* the loops of createGrid from the cell k = y * cols + x on
RECURSIVE GridFrom(_, _, _, _, _, _, _, _)
GridFrom(sys, startX, startY, cols, rows, spacing, pinTop, k) ==
  IF k >= cols * rows THEN sys
  ELSE LET x == k % cols
           y == k \div cols
           s1 == addParticle(sys, startX + x * spacing, startY + y * spacing,
                             pinTop /\ y = 0)
           n == Len(s1.particles)
           s2 == IF x > 0 THEN addConstraint(s1, n - 1, n, FS) ELSE s1
           s3 == IF y > 0 THEN addConstraint(s2, n - cols, n, FS) ELSE s2
       IN  GridFrom(s3, startX, startY, cols, rows, spacing, pinTop, k + 1)

\* VerletSystem.createGrid(startX, startY, cols, rows, spacing, pinTop)
createGrid(sys, startX, startY, cols, rows, spacing, pinTop) ==
  GridFrom(sys, startX, startY, cols, rows, spacing, pinTop, 0)

\* The particle objects a constraint can refer to: those of sys.particles,
\* referred to by their index, and those that clear() dropped from the system
\* and that live on in the hands of a host, referred to by a negative number.
Heap(ps, dropped) ==
  [r \in (DOMAIN ps) \cup {-k : k \in DOMAIN dropped} |->
     IF r > 0 THEN ps[r] ELSE dropped[-r]]

\* addConstraint(p1, p2, stiffness) for two particle objects of the heap
addConstraintOn(sys, dropped, r1, r2, stiffness) ==
  [sys EXCEPT !.constraints =
                Append(@, NewConstraint(Heap(sys.particles, dropped), r1, r2,
                                        stiffness))]

\* VerletSystem.step() when constraints may refer to dropped particles: the
\* particles of the system are integrated and collide, the constraints move
\* whatever objects they join
stepOn(sys, dropped) ==
  Bind([i \in DOMAIN sys.particles |->
          ParticleUpdate(sys.particles[i], sys.friction, sys.gravity)],
    LAMBDA ps1 :
  Bind(Relax(Heap(ps1, dropped), sys.constraints, sys.iterations), LAMBDA h :
    [ sys |-> [sys EXCEPT !.particles =
                 IF sys.bounds.set
                 THEN [i \in DOMAIN ps1 |->
                         ParticleConstrain(h[i], sys.bounds.minX,
                                           sys.bounds.minY, sys.bounds.maxX,
                                           sys.bounds.maxY, sys.bounce)]
                 ELSE [i \in DOMAIN ps1 |-> h[i]]],
      dropped |-> [k \in DOMAIN dropped |-> h[-k]] ]))

----------------------------------------------------------------------------
(* Verlet engine: the calls a host makes *)

\* the options a system is built with: none but the pass count, and those of
\* PhysicsType
VerletOptions ==
  { [iterations |-> 1],
    [gravity |-> (3 * FS) \div 10, friction |-> FS - FS \div 50,
     bounce |-> (6 * FS) \div 10, iterations |-> 2] }

ParticlePositions == {<<0, 0>>, <<3 * FS, 4 * FS>>}
Stiffnesses == {FS, FS \div 2}

NoVerletCall == [op |-> "new", i |-> 0]

VerletIdle ==
  /\ vsys = NewVerletSystem([iterations |-> 0])
  /\ created = <<>>
  /\ verletCall = NoVerletCall
  /\ nVerletCalls = 0
  /\ nMoves = 0
  /\ nSolves = 0
  /\ detached = <<>>

VerletInit ==
  /\ \E o \in VerletOptions : vsys = NewVerletSystem(o)
  /\ created = <<>>
  /\ verletCall = NoVerletCall
  /\ nVerletCalls = 0
  /\ nMoves = 0
  /\ nSolves = 0
  /\ detached = <<>>

\* a call on the system that creates no particle
SystemCall(op, sys) ==
  /\ nVerletCalls < MaxVerletCalls
  /\ vsys' = sys
  /\ verletCall' = [op |-> op, i |-> 0]
  /\ nVerletCalls' = nVerletCalls + 1
  /\ UNCHANGED <<nMoves, nSolves, detached, notVerlet>>

AddParticle ==
  \E pos \in ParticlePositions, pinned \in BOOLEAN :
    /\ SystemCall("addParticle", addParticle(vsys, pos[1], pos[2], pinned))
    /\ created' = Append(created, [x |-> pos[1], y |-> pos[2], pinned |-> pinned])

AddConstraint ==
  \E i \in DOMAIN vsys.particles, j \in DOMAIN vsys.particles,
     k \in Stiffnesses :
    /\ i < j
    /\ SystemCall("addConstraint", addConstraint(vsys, i, j, k))
    /\ UNCHANGED created

ApplyForce ==
  /\ SystemCall("applyForce", applyForce(vsys, 2 * FS, -FS))
  /\ UNCHANGED created

ApplyForceToParticle ==
  \E index \in {0, Len(vsys.particles)} :
    /\ SystemCall("applyForceToParticle",
                  applyForceToParticle(vsys, index, -FS, 3 * FS))
    /\ UNCHANGED created

ApplyRadialForce ==
  /\ SystemCall("applyRadialForce",
                applyRadialForce(vsys, FS, FS, 10 * FS, 2 * FS))
  /\ UNCHANGED created

SetBounds ==
  /\ SystemCall("setBounds", setBounds(vsys, FS, FS, 6 * FS, 6 * FS))
  /\ UNCHANGED created

VerletStep ==
  /\ \E sys \in {verletStep(vsys)} : SystemCall("step", sys)
  /\ UNCHANGED created

VerletClear ==
  /\ vsys.particles # <<>>
  /\ SystemCall("clear", verletClear(vsys))
  /\ created' = <<>>

VerletNext ==
  \/ AddParticle \/ AddConstraint \/ ApplyForce \/ ApplyForceToParticle
  \/ ApplyRadialForce \/ SetBounds \/ VerletStep \/ VerletClear

\* One constraint between two particles, whose endpoints a host then pushes
\* with Particle.applyForce (as PhysicsType.shake does) and which it solves
\* with Constraint.solve.  mass is a public field of Particle: the second
\* endpoint carries either the constructor's 1 or a mass assigned later.
EndpointPositions == {<<3 * FS, 4 * FS>>, <<10 * FS, 0>>, <<0, 0>>}
EndpointForces == {<<6 * FS, 8 * FS>>, <<-2 * FS, FS>>}
EndpointMasses == {FS, 2 * FS}
ConstraintStiffnesses == {0, FS \div 2, FS}

ConstraintInit ==
  /\ \E pin1 \in BOOLEAN, pos \in EndpointPositions, pin2 \in BOOLEAN,
        m \in EndpointMasses, k \in ConstraintStiffnesses :
       /\ vsys = addConstraint(
                   [addParticle(addParticle(NewVerletSystem([iterations |-> 1]),
                                            0, 0, pin1),
                                pos[1], pos[2], pin2)
                      EXCEPT !.particles[2].mass = m],
                   1, 2, k)
       /\ created = << [x |-> 0, y |-> 0, pinned |-> pin1],
                       [x |-> pos[1], y |-> pos[2], pinned |-> pin2] >>
  /\ verletCall = NoVerletCall
  /\ nVerletCalls = 0
  /\ nMoves = 0
  /\ nSolves = 0
  /\ detached = <<>>

MoveEndpoint ==
  \E i \in DOMAIN vsys.particles, f \in EndpointForces :
    /\ nMoves < MaxMoves
    /\ vsys' = [vsys EXCEPT !.particles[i] = ParticleApplyForce(@, f[1], f[2])]
    /\ verletCall' = [op |-> "move", i |-> i]
    /\ nMoves' = nMoves + 1
    /\ UNCHANGED <<created, nVerletCalls, nSolves, detached, notVerlet>>

SolveConstraint ==
  \E k \in DOMAIN vsys.constraints :
    /\ nSolves < MaxSolves
    /\ vsys' = [vsys EXCEPT
                  !.particles = ConstraintSolve(@, vsys.constraints[k])]
    /\ verletCall' = [op |-> "solve", i |-> k]
    /\ nSolves' = nSolves + 1
    /\ UNCHANGED <<created, nVerletCalls, nMoves, detached, notVerlet>>

ConstraintNext == MoveEndpoint \/ SolveConstraint

\* A system with bounds set (as PhysicsType sets them, before the particles
\* are made), holding two particles joined by a constraint, the first of them
\* outside the bounds, which a host pushes and steps; the host also calls
\* Particle.constrain itself, with bounds of its own.
BoundsSets == { <<FS, FS, 6 * FS, 6 * FS>>, <<2 * FS, 3 * FS, 2 * FS, 3 * FS>> }
BoundedPositions == { <<3 * FS, 4 * FS>>, <<(11 * FS) \div 2, (23 * FS) \div 4>> }
\* the bounds and bounce a host passes to Particle.constrain: the default
\* bounce, and none
ConstrainCalls ==
  { <<FS, FS, 6 * FS, 6 * FS, (8 * FS) \div 10>>,
    <<2 * FS, 3 * FS, 2 * FS, 3 * FS, 0>> }

BoundsInit ==
  /\ \E o \in VerletOptions, b \in BoundsSets, pos \in BoundedPositions,
        pin1 \in BOOLEAN, k \in {FS} :
       /\ vsys = addConstraint(
                   addParticle(
                     addParticle(
                       setBounds(NewVerletSystem(o), b[1], b[2], b[3], b[4]),
                       0, 0, pin1),
                     pos[1], pos[2], FALSE),
                   1, 2, k)
       /\ created = << [x |-> 0, y |-> 0, pinned |-> pin1],
                       [x |-> pos[1], y |-> pos[2], pinned |-> FALSE] >>
  /\ verletCall = NoVerletCall
  /\ nVerletCalls = 0
  /\ nMoves = 0
  /\ nSolves = 0
  /\ detached = <<>>

\* p.constrain(minX, minY, maxX, maxY) or p.constrain(..., bounce) by a host
ConstrainParticle ==
  \E i \in DOMAIN vsys.particles, b \in ConstrainCalls :
    /\ nVerletCalls < MaxVerletCalls
    /\ vsys' = [vsys EXCEPT !.particles[i] =
                  ParticleConstrain(@, b[1], b[2], b[3], b[4], b[5])]
    /\ verletCall' = [op |-> "constrain", i |-> i, bounds |-> b,
                      bounce |-> b[5]]
    /\ nVerletCalls' = nVerletCalls + 1
    /\ UNCHANGED <<created, nMoves, nSolves, detached, notVerlet>>

BoundsNext ==
  \/ ApplyForce \/ ApplyForceToParticle \/ ApplyRadialForce \/ VerletStep
  \/ ConstrainParticle

\* Two particles, created apart or in the same place, and the constraint
\* between them; the pointer that drives applyRadialForce is on a particle
\* or away from both.
CoincidentPositions == {<<0, 0>>, <<3 * FS, 4 * FS>>}

CoincidentInit ==
  /\ \E pos \in CoincidentPositions, pin2 \in BOOLEAN :
       /\ vsys = addConstraint(
                   addParticle(addParticle(NewVerletSystem([iterations |-> 1]),
                                           0, 0, FALSE),
                               pos[1], pos[2], pin2),
                   1, 2, FS)
       /\ created = << [x |-> 0, y |-> 0, pinned |-> FALSE],
                       [x |-> pos[1], y |-> pos[2], pinned |-> pin2] >>
  /\ verletCall = NoVerletCall
  /\ nVerletCalls = 0
  /\ nMoves = 0
  /\ nSolves = 0
  /\ detached = <<>>

\* the radius and the strength of the radial force
RadialRadius == 10 * FS
RadialStrength == 2 * FS

ApplyRadialForceAt ==
  \E c \in {<<vsys.particles[i].x, vsys.particles[i].y>> :
              i \in DOMAIN vsys.particles} \cup {<<FS, FS>>} :
    /\ nVerletCalls < MaxPushes
    /\ vsys' = applyRadialForce(vsys, c[1], c[2], RadialRadius, RadialStrength)
    /\ verletCall' = [op |-> "applyRadialForce", i |-> 0, centre |-> c]
    /\ nVerletCalls' = nVerletCalls + 1
    /\ UNCHANGED <<created, nMoves, nSolves, detached, notVerlet>>

\* A host that builds its system with addParticle, addConstraint,
\* createChain and createGrid, steps it and clears it, and that keeps the
\* particles the system returned to it, across clear() too.
OwnedCall(op, sys) ==
  /\ nVerletCalls < MaxVerletCalls
  /\ vsys' = sys
  /\ verletCall' = [op |-> op, i |-> 0]
  /\ nVerletCalls' = nVerletCalls + 1
  /\ created' = [i \in DOMAIN sys.particles |->
                   IF i \in DOMAIN created THEN created[i]
                   ELSE [x |-> sys.particles[i].x, y |-> sys.particles[i].y,
                         pinned |-> sys.particles[i].pinned]]
  /\ UNCHANGED <<nMoves, nSolves, notVerlet>>

AddParticleKept ==
  \E pos \in ParticlePositions, pinned \in BOOLEAN :
    /\ OwnedCall("addParticle", addParticle(vsys, pos[1], pos[2], pinned))
    /\ UNCHANGED detached

AddConstraintKept ==
  \E r1 \in DOMAIN Heap(vsys.particles, detached),
     r2 \in DOMAIN Heap(vsys.particles, detached) :
    /\ r1 < r2
    /\ OwnedCall("addConstraint", addConstraintOn(vsys, detached, r1, r2, FS))
    /\ UNCHANGED detached

CreateChain ==
  /\ OwnedCall("createChain",
               createChain(vsys, 0, 0, 4 * FS, 2, TRUE, FALSE))
  /\ UNCHANGED detached

CreateGrid ==
  /\ OwnedCall("createGrid", createGrid(vsys, 0, 0, 2, 2, 2 * FS, TRUE))
  /\ UNCHANGED detached

StepKept ==
  \E r \in {stepOn(vsys, detached)} :
    /\ OwnedCall("step", r.sys)
    /\ detached' = r.dropped

ClearKept ==
  /\ vsys.particles # <<>>
  /\ OwnedCall("clear", verletClear(vsys))
  /\ detached' = detached \o vsys.particles

OwnedNext ==
  \/ AddParticleKept \/ AddConstraintKept \/ CreateChain \/ CreateGrid
  \/ StepKept \/ ClearKept

----------------------------------------------------------------------------
(* Boids (boids.js): Boid and Flock *)

\* a parameter with a default value: the default replaces undefined only
Param(options, k, d) == IF k \in DOMAIN options THEN options[k] ELSE d

\* options.k || d: the default replaces every falsy value, 0 included
OrDefault(options, k, d) ==
  IF k \in DOMAIN options /\ options[k] # 0 THEN options[k] ELSE d

\* new Boid(x, y, maxSpeed, maxForce); r1 and r2 are the values Math.random()
\* returned for vx and vy
NewBoid(x, y, options, r1, r2) ==
  [ x |-> x, y |-> y, vx |-> Mul(r1 - FS \div 2, 2 * FS),
    vy |-> Mul(r2 - FS \div 2, 2 * FS), ax |-> 0, ay |-> 0,
    maxSpeed |-> Param(options, "maxSpeed", 4 * FS),
    maxForce |-> Param(options, "maxForce", FS \div 10) ]

\* Boid.applyForce(fx, fy)
BoidApplyForce(b, fx, fy) == [b EXCEPT !.ax = @ + fx, !.ay = @ + fy]

NoLimitSpeed(v, speed, maxSpeed) == v

\* the speed limit of Boid.update: (v / speed) * maxSpeed
LimitSpeed(v, speed, maxSpeed) ==
  IF speed > maxSpeed THEN RoundDiv(v * maxSpeed, speed) ELSE v

\* update() without "Reset acceleration"
BoidUpdateKeeping(b) ==
  LET vx == b.vx + b.ax
      vy == b.vy + b.ay
  IN  Bind(Hypot(vx, vy), LAMBDA speed :
      Bind(<<LimitSpeed(vx, speed, b.maxSpeed),
             LimitSpeed(vy, speed, b.maxSpeed)>>, LAMBDA v :
        [b EXCEPT !.vx = v[1], !.vy = v[2], !.x = @ + v[1], !.y = @ + v[2]]))

\* Boid.update()
BoidUpdate(b) ==
  LET vx == b.vx + b.ax
      vy == b.vy + b.ay
  IN  Bind(Hypot(vx, vy), LAMBDA speed :
      Bind(<<LimitSpeed(vx, speed, b.maxSpeed),
             LimitSpeed(vy, speed, b.maxSpeed)>>, LAMBDA v :
        [b EXCEPT !.vx = v[1], !.vy = v[2], !.x = @ + v[1], !.y = @ + v[2],
                  !.ax = 0, !.ay = 0]))

NoWrap(p, size) == p

\* one axis of Boid.edges: if (p > size) p = 0; if (p < 0) p = size
Wrap(p, size) ==
  LET q == IF p > size THEN 0 ELSE p
  IN  IF q < 0 THEN size ELSE q

\* Boid.edges(width, height)
BoidEdges(b, width, height) ==
  [b EXCEPT !.x = Wrap(@, width), !.y = Wrap(@, height)]

\* Math.random() * size, for the value r that Math.random() returned
RandomIn(r, size) == Mul(r, size)

\* new Flock(count, width, height, options); draws[i] holds the four values
\* Math.random() returned for boid i: x, y, vx, vy
NewFlock(count, width, height, options, draws) ==
  [ width |-> width, height |-> height,
    boids |-> [i \in 1 .. count |->
                 NewBoid(RandomIn(draws[i][1], width),
                         RandomIn(draws[i][2], height),
                         options, draws[i][3], draws[i][4])],
    separationWeight |-> OrDefault(options, "separationWeight", (3 * FS) \div 2),
    alignmentWeight |-> OrDefault(options, "alignmentWeight", FS),
    cohesionWeight |-> OrDefault(options, "cohesionWeight", FS),
    perceptionRadius |-> OrDefault(options, "perceptionRadius", 50 * FS),
    separationRadius |-> OrDefault(options, "separationRadius", 25 * FS),
    trails |-> <<>>,
    maxTrailLength |-> OrDefault(options, "maxTrailLength", 5) ]

\* the sum of the k-th components of a sequence of tuples
RECURSIVE SumOf(_, _)
SumOf(seq, k) ==
  IF seq = <<>> THEN 0 ELSE Head(seq)[k] + SumOf(Tail(seq), k)

\* no "limit force": the steering vector is returned as computed
NoLimitForce(sx, sy, max) == <<sx, sy>>

\* "limit force": a steering vector longer than max is scaled to length max
LimitForce(sx, sy, max) ==
  Bind(Hypot(sx, sy), LAMBDA forceMag :
    IF forceMag > max
    THEN <<RoundDiv(sx * max, forceMag), RoundDiv(sy * max, forceMag)>>
    ELSE <<sx, sy>>)

\* Flock.separation(boid) for the boid at index me
separation(f, me) ==
  LET b == f.boids[me]
      term(i) ==
        LET dx == b.x - f.boids[i].x
            dy == b.y - f.boids[i].y
        IN  Bind(Hypot(dx, dy), LAMBDA d :
              IF i # me /\ d < f.separationRadius /\ d > 0
              THEN <<RoundDiv(dx * FS * FS, d * d),
                     RoundDiv(dy * FS * FS, d * d), 1>>
              ELSE <<0, 0, 0>>)
  IN  Bind([i \in DOMAIN f.boids |-> term(i)], LAMBDA terms :
      Bind(SumOf(terms, 3), LAMBDA count :
        IF count = 0 THEN <<0, 0>>
        ELSE Bind(<<RoundDiv(SumOf(terms, 1), count),
                    RoundDiv(SumOf(terms, 2), count)>>, LAMBDA steer :
             Bind(Hypot(steer[1], steer[2]), LAMBDA mag :
               IF mag > 0
               THEN LimitForce(RoundDiv(steer[1] * b.maxSpeed, mag) - b.vx,
                               RoundDiv(steer[2] * b.maxSpeed, mag) - b.vy,
                               b.maxForce)
               ELSE steer))))

\* alignment without the test d < perceptionRadius: every flockmate counts
alignmentUnbounded(f, me) ==
  LET b == f.boids[me]
      term(i) ==
        IF i # me THEN <<f.boids[i].vx, f.boids[i].vy, 1>> ELSE <<0, 0, 0>>
  IN  Bind([i \in DOMAIN f.boids |-> term(i)], LAMBDA terms :
      Bind(SumOf(terms, 3), LAMBDA count :
        IF count = 0 THEN <<0, 0>>
        ELSE Bind(<<RoundDiv(SumOf(terms, 1), count),
                    RoundDiv(SumOf(terms, 2), count)>>, LAMBDA avg :
             Bind(Hypot(avg[1], avg[2]), LAMBDA mag :
               IF mag > 0
               THEN LimitForce(RoundDiv(avg[1] * b.maxSpeed, mag) - b.vx,
                               RoundDiv(avg[2] * b.maxSpeed, mag) - b.vy,
                               b.maxForce)
               ELSE LimitForce(avg[1] - b.vx, avg[2] - b.vy, b.maxForce)))))

\* Flock.alignment(boid) for the boid at index me
alignment(f, me) ==
  LET b == f.boids[me]
      term(i) ==
        IF i # me /\ Hypot(f.boids[i].x - b.x, f.boids[i].y - b.y)
                       < f.perceptionRadius
        THEN <<f.boids[i].vx, f.boids[i].vy, 1>>
        ELSE <<0, 0, 0>>
  IN  Bind([i \in DOMAIN f.boids |-> term(i)], LAMBDA terms :
      Bind(SumOf(terms, 3), LAMBDA count :
        IF count = 0 THEN <<0, 0>>
        ELSE Bind(<<RoundDiv(SumOf(terms, 1), count),
                    RoundDiv(SumOf(terms, 2), count)>>, LAMBDA avg :
             Bind(Hypot(avg[1], avg[2]), LAMBDA mag :
               IF mag > 0
               THEN LimitForce(RoundDiv(avg[1] * b.maxSpeed, mag) - b.vx,
                               RoundDiv(avg[2] * b.maxSpeed, mag) - b.vy,
                               b.maxForce)
               ELSE LimitForce(avg[1] - b.vx, avg[2] - b.vy, b.maxForce)))))

\* seek without the test d === 0: at the target the quotient 0 / 0 is NaN
seekUnguarded(b, tx, ty, maxDist) ==
  LET dx == tx - b.x
      dy == ty - b.y
  IN  Bind(Hypot(dx, dy), LAMBDA d :
        IF maxDist >= 0 /\ d > maxDist THEN <<0, 0>>
        ELSE IF d = 0 THEN <<NaN, NaN>>
        ELSE LimitForce(RoundDiv(dx * b.maxSpeed, d) - b.vx,
                        RoundDiv(dy * b.maxSpeed, d) - b.vy, b.maxForce))

\* Flock.seek(boid, target, maxDist); maxDist < 0 stands for Infinity
seek(b, tx, ty, maxDist) ==
  LET dx == tx - b.x
      dy == ty - b.y
  IN  Bind(Hypot(dx, dy), LAMBDA d :
        IF (maxDist >= 0 /\ d > maxDist) \/ d = 0 THEN <<0, 0>>
        ELSE LimitForce(RoundDiv(dx * b.maxSpeed, d) - b.vx,
                        RoundDiv(dy * b.maxSpeed, d) - b.vy, b.maxForce))

\* Flock.cohesion(boid) for the boid at index me
cohesion(f, me) ==
  LET b == f.boids[me]
      term(i) ==
        IF i # me /\ Hypot(f.boids[i].x - b.x, f.boids[i].y - b.y)
                       < f.perceptionRadius
        THEN <<f.boids[i].x, f.boids[i].y, 1>>
        ELSE <<0, 0, 0>>
  IN  Bind([i \in DOMAIN f.boids |-> term(i)], LAMBDA terms :
      Bind(SumOf(terms, 3), LAMBDA count :
        IF count = 0 THEN <<0, 0>>
        ELSE seek(b, RoundDiv(SumOf(terms, 1), count),
                  RoundDiv(SumOf(terms, 2), count), -1)))

\* Flock.flee(boid, target, maxDist)
flee(b, tx, ty, maxDist) ==
  LET dx == b.x - tx
      dy == b.y - ty
  IN  Bind(Hypot(dx, dy), LAMBDA d :
        IF d > maxDist \/ d = 0 THEN <<0, 0>>
        ELSE LET strength == RoundDiv((maxDist - d) * FS, maxDist)
             IN  LimitForce(Mul(RoundDiv(dx * b.maxSpeed, d), strength),
                            Mul(RoundDiv(dy * b.maxSpeed, d), strength),
                            b.maxForce * 2))

\* the body of the loop of Flock.update for the boid at index me; predator
\* and attractor are <<>> (null) or a point <<x, y>>
UpdateBoid(f, me, predator, attractor) ==
  Bind(<<separation(f, me), alignment(f, me), cohesion(f, me)>>, LAMBDA r :
  Bind(BoidApplyForce(
         BoidApplyForce(
           BoidApplyForce(f.boids[me], Mul(r[1][1], f.separationWeight),
                          Mul(r[1][2], f.separationWeight)),
           Mul(r[2][1], f.alignmentWeight), Mul(r[2][2], f.alignmentWeight)),
         Mul(r[3][1], f.cohesionWeight), Mul(r[3][2], f.cohesionWeight)),
    LAMBDA b1 :
  Bind(IF predator # <<>>
       THEN Bind(flee(b1, predator[1], predator[2], 100 * FS), LAMBDA fl :
              BoidApplyForce(b1, fl[1] * 2, fl[2] * 2))
       ELSE b1, LAMBDA b2 :
  Bind(IF attractor # <<>>
       THEN Bind(seek(b2, attractor[1], attractor[2], 150 * FS), LAMBDA sk :
              BoidApplyForce(b2, Mul(sk[1], (3 * FS) \div 2),
                             Mul(sk[2], (3 * FS) \div 2)))
       ELSE b2, LAMBDA b3 :
    [f EXCEPT !.boids[me] = BoidEdges(BoidUpdate(b3), f.width, f.height)]))))

\* an update that computes every boid from index me on from the flock as it
\* was before any of them moved
UpdateAtOnce(f, me, predator, attractor) ==
  [f EXCEPT !.boids =
     [i \in DOMAIN @ |->
        IF i >= me THEN UpdateBoid(f, i, predator, attractor).boids[i]
        ELSE @[i]]]

\* for (const boid of this.boids) ..., from index me on
RECURSIVE UpdateFrom(_, _, _, _)
UpdateFrom(f, me, predator, attractor) ==
  IF me > Len(f.boids) THEN f
  ELSE Bind(UpdateBoid(f, me, predator, attractor), LAMBDA f1 :
         UpdateFrom(f1, me + 1, predator, attractor))

\* Flock.update(predator, attractor)
flockUpdate(f, predator, attractor) ==
  UpdateFrom([f EXCEPT !.trails = [i \in DOMAIN f.boids |->
                                    [x |-> f.boids[i].x, y |-> f.boids[i].y,
                                     char |-> "."]]],
             1, predator, attractor)

\* Flock.resize(width, height)
flockResize(f, width, height) == [f EXCEPT !.width = width, !.height = height]

----------------------------------------------------------------------------
(* Boids: the calls a host makes *)

\* the options a flock is built with: those of Creatures, none of weight
\* (a slow flock with short sight), and the defaults with a zero weight
FlockOptions ==
  { [maxSpeed |-> 3 * FS, maxForce |-> (8 * FS) \div 100,
     perceptionRadius |-> 40 * FS, separationRadius |-> 20 * FS],
    [maxSpeed |-> FS, maxForce |-> FS \div 2, perceptionRadius |-> 12 * FS,
     separationRadius |-> 6 * FS],
    [cohesionWeight |-> 0] }

FlockCounts == {1, 3}

\* what Math.random() returns, four values a boid: one near the right edge
\* heading out, one in the top left corner heading out, one in the middle
RandomDraws ==
  { <<(99 * FS) \div 100, FS \div 2, (9 * FS) \div 10, FS \div 2>>,
    <<0, FS \div 100, FS \div 20, FS \div 20>>,
    <<FS \div 2, (6 * FS) \div 10, FS \div 2, (9 * FS) \div 10>> }

Points == {<<>>, <<12 * FS, 9 * FS>>}

NoFlockCall == [op |-> "new", predator |-> <<>>, attractor |-> <<>>]

FlockIdle ==
  /\ flock = NewFlock(0, 0, 0, [maxSpeed |-> 0], <<>>)
  /\ flockCall = NoFlockCall
  /\ nUpdates = 0
  /\ nResizes = 0
  /\ configured = [maxSpeed |-> 0]
  /\ pushed = <<>>

FlockInit ==
  /\ \E count \in FlockCounts, o \in FlockOptions :
       \E draws \in [1 .. count -> RandomDraws] :
         /\ flock = NewFlock(count, 30 * FS, 20 * FS, o, draws)
         /\ configured = o
         /\ pushed = [i \in 1 .. count |-> <<>>]
  /\ flockCall = NoFlockCall
  /\ nUpdates = 0
  /\ nResizes = 0

FlockUpdate ==
  \E predator \in Points, attractor \in Points :
    /\ nUpdates < MaxUpdates
    /\ \E f \in {flockUpdate(flock, predator, attractor)} : flock' = f
    /\ flockCall' = [op |-> "update", predator |-> predator,
                     attractor |-> attractor]
    /\ nUpdates' = nUpdates + 1
    /\ pushed' = [i \in DOMAIN flock.boids |-> <<>>]
    /\ UNCHANGED <<nResizes, configured, notFlock>>

FlockResize ==
  /\ nResizes < MaxResizes
  /\ flock' = flockResize(flock, 10 * FS, 0)
  /\ flockCall' = [NoFlockCall EXCEPT !.op = "resize"]
  /\ nResizes' = nResizes + 1
  /\ UNCHANGED <<nUpdates, configured, pushed, notFlock>>

FlockNext == FlockUpdate \/ FlockResize

\* A flock of three whose boids may share a position, and the steering
\* methods called one at a time, the target being a boid's own position or
\* a point away from it.
CoincidentDraws ==
  LET r == <<(99 * FS) \div 100, FS \div 2, (9 * FS) \div 10, FS \div 2>>
      m == <<FS \div 2, (6 * FS) \div 10, FS \div 2, (9 * FS) \div 10>>
      c == <<0, FS \div 100, FS \div 20, FS \div 20>>
  IN  {<<r, r, r>>, <<m, r, m>>, <<r, m, c>>}

CoincidentFlockInit ==
  /\ \E draws \in CoincidentDraws :
       \E o \in {[maxSpeed |-> 3 * FS, maxForce |-> (8 * FS) \div 100,
                  perceptionRadius |-> 40 * FS, separationRadius |-> 20 * FS]} :
         /\ flock = NewFlock(3, 30 * FS, 20 * FS, o, draws)
         /\ configured = o
         /\ pushed = [i \in 1 .. 3 |-> <<>>]
  /\ flockCall = NoFlockCall
  /\ nUpdates = 0
  /\ nResizes = 0

Targets(b) == {<<b.x, b.y>>} \cup (Points \ {<<>>})

FlockSeparation ==
  \E i \in DOMAIN flock.boids :
    /\ flockCall' = [op |-> "separation", i |-> i, target |-> <<>>,
                     result |-> separation(flock, i)]
    /\ UNCHANGED <<flock, nUpdates, nResizes, configured, pushed, notFlock>>

FlockSeek ==
  \E i \in DOMAIN flock.boids : \E t \in Targets(flock.boids[i]) :
    /\ flockCall' = [op |-> "seek", i |-> i, target |-> t,
                     result |-> seek(flock.boids[i], t[1], t[2], 150 * FS)]
    /\ UNCHANGED <<flock, nUpdates, nResizes, configured, pushed, notFlock>>

FlockFlee ==
  \E i \in DOMAIN flock.boids : \E t \in Targets(flock.boids[i]) :
    /\ flockCall' = [op |-> "flee", i |-> i, target |-> t,
                     result |-> flee(flock.boids[i], t[1], t[2], 100 * FS)]
    /\ UNCHANGED <<flock, nUpdates, nResizes, configured, pushed, notFlock>>

\* A flock of two whose boids a host also drives itself, with
\* Boid.applyForce and Boid.update on the members of flock.boids.
BoidForces == {<<FS \div 20, -(FS \div 10)>>}

BoidInit ==
  /\ \E draws \in {<< <<FS \div 2, (6 * FS) \div 10, FS \div 2, (9 * FS) \div 10>>,
                      <<(99 * FS) \div 100, FS \div 2, (9 * FS) \div 10,
                        FS \div 2>> >>} :
       \E o \in {[maxSpeed |-> 3 * FS, maxForce |-> (8 * FS) \div 100,
                  perceptionRadius |-> 40 * FS, separationRadius |-> 20 * FS]} :
         /\ flock = NewFlock(2, 30 * FS, 20 * FS, o, draws)
         /\ configured = o
         /\ pushed = [i \in 1 .. 2 |-> <<>>]
  /\ flockCall = NoFlockCall
  /\ nUpdates = 0
  /\ nResizes = 0

\* the forces waiting in all the lists of a sequence of lists
RECURSIVE Waiting(_)
Waiting(lists) ==
  IF lists = <<>> THEN 0 ELSE Len(Head(lists)) + Waiting(Tail(lists))

BoidPush ==
  \E i \in DOMAIN flock.boids, f \in BoidForces :
    /\ Waiting(pushed) < MaxForces
    /\ flock' = [flock EXCEPT !.boids[i] = BoidApplyForce(@, f[1], f[2])]
    /\ flockCall' = [op |-> "applyForce", i |-> i, force |-> f]
    /\ pushed' = [pushed EXCEPT ![i] = Append(@, f)]
    /\ UNCHANGED <<nUpdates, nResizes, configured, notFlock>>

BoidStep ==
  \E i \in DOMAIN flock.boids :
    /\ nUpdates < MaxUpdates
    /\ \E b \in {BoidUpdate(flock.boids[i])} :
         flock' = [flock EXCEPT !.boids[i] = b]
    /\ flockCall' = [op |-> "boidUpdate", i |-> i]
    /\ nUpdates' = nUpdates + 1
    /\ pushed' = [pushed EXCEPT ![i] = <<>>]
    /\ UNCHANGED <<nResizes, configured, notFlock>>

BoidNext == BoidPush \/ BoidStep \/ FlockUpdate

\* A flock of three that update() moves, and whose five steering methods are
\* also called one at a time between updates.
SteerOptions ==
  { [maxSpeed |-> 3 * FS, maxForce |-> (8 * FS) \div 100,
     perceptionRadius |-> 40 * FS, separationRadius |-> 20 * FS],
    [maxSpeed |-> FS, maxForce |-> FS \div 2, perceptionRadius |-> 12 * FS,
     separationRadius |-> 6 * FS] }

SteerInit ==
  /\ \E draws \in CoincidentDraws, o \in SteerOptions :
       /\ flock = NewFlock(3, 30 * FS, 20 * FS, o, draws)
       /\ configured = o
       /\ pushed = [i \in 1 .. 3 |-> <<>>]
  /\ flockCall = NoFlockCall
  /\ nUpdates = 0
  /\ nResizes = 0

FlockAlignment ==
  \E i \in DOMAIN flock.boids :
    /\ flockCall' = [op |-> "alignment", i |-> i, target |-> <<>>,
                     result |-> alignment(flock, i)]
    /\ UNCHANGED <<flock, nUpdates, nResizes, configured, pushed, notFlock>>

FlockCohesion ==
  \E i \in DOMAIN flock.boids :
    /\ flockCall' = [op |-> "cohesion", i |-> i, target |-> <<>>,
                     result |-> cohesion(flock, i)]
    /\ UNCHANGED <<flock, nUpdates, nResizes, configured, pushed, notFlock>>

SteerNext ==
  \/ FlockUpdate
  \/ FlockSeparation \/ FlockAlignment \/ FlockCohesion
  \/ FlockSeek \/ FlockFlee

\* Flocks of short sight: one that is given perceptionRadius alone, so that
\* separationRadius keeps its default 25, and one given both radii.
LoneOptions ==
  { [perceptionRadius |-> 10 * FS],
    [maxSpeed |-> FS, maxForce |-> FS \div 2, perceptionRadius |-> 12 * FS,
     separationRadius |-> 6 * FS] }

LoneInit ==
  /\ \E count \in {1, 2, 3}, o \in LoneOptions :
       \E draws \in [1 .. count -> RandomDraws] :
         /\ flock = NewFlock(count, 30 * FS, 20 * FS, o, draws)
         /\ configured = o
         /\ pushed = [i \in 1 .. count |-> <<>>]
  /\ flockCall = NoFlockCall
  /\ nUpdates = 0
  /\ nResizes = 0

----------------------------------------------------------------------------
(* Simplex noise (noise.js) *)

\* the coordinates and values of the noise functions carry four decimals
NS == FS * FS

NMul(a, b) == RoundDiv(a * b, NS)

\* Math.floor, as a plain integer
NFloor(v) == v \div NS

grad3 ==
  << <<1, 1, 0>>, <<-1, 1, 0>>, <<1, -1, 0>>, <<-1, -1, 0>>,
     <<1, 0, 1>>, <<-1, 0, 1>>, <<1, 0, -1>>, <<-1, 0, -1>>,
     <<0, 1, 1>>, <<0, -1, 1>>, <<0, 1, -1>>, <<0, -1, -1>> >>

\* F2 = 0.5 * (Math.sqrt(3) - 1), G2 = (3 - Math.sqrt(3)) / 6
\* (2 * Math.sqrt(3) is taken, to keep one more digit of the root)
F2 == RoundDiv(Sqrt(12 * NS * NS) - 2 * NS, 4)
G2 == RoundDiv(6 * NS - Sqrt(12 * NS * NS), 12)

\* F3 = 1 / 3, G3 = 1 / 6
F3 == RoundDiv(NS, 3)
G3 == RoundDiv(NS, 6)

\* a % b of JavaScript: the sign of the result is that of a
Rem(a, b) == IF a >= 0 THEN a % b ELSE -((-a) % b)

\* (n * 16807) % 2147483647 for an integer n, the product taken in two parts
\* to stay within 32 bits
Lehmer(n) ==
  LET a == Abs(n)
      r == 16807 * (a % 127773) - 2836 * (a \div 127773)
      u == IF r < 0 THEN r + 2147483647 ELSE r
  IN  IF n < 0 THEN -u ELSE u

\* [p[i], p[j]] = [p[j], p[i]] on a Uint8Array: at a negative j the read is
\* undefined, stored as 0, and the write is dropped
Swap(p, i, j) ==
  IF j >= 0 THEN [p EXCEPT ![i] = p[j], ![j] = p[i]] ELSE [p EXCEPT ![i] = 0]

\* the shuffle loop of seed from index i down to index last
RECURSIVE ShuffleRun(_, _, _)
ShuffleRun(T, i, last) ==
  IF i < last THEN T
  ELSE Bind(Lehmer(T.n), LAMBDA n1 :
       Bind([p |-> Swap(T.p, i, Rem(n1, i + 1)), n |-> n1], LAMBDA T1 :
         ShuffleRun(T1, i - 1, last)))

\* the shuffle loop of seed, for (let i = 255; i > 0; i--), run by run
RECURSIVE Shuffle(_, _)
Shuffle(T, i) ==
  IF i <= 0 THEN T.p
  ELSE Bind(ShuffleRun(T, i, Max(i - 15, 1)), LAMBDA T1 : Shuffle(T1, i - 16))

\* the tables seed fills from the shuffled p
Extend(p) ==
  [ perm |-> [i \in 0 .. 511 |-> p[i % 256]],
    gradP |-> [i \in 0 .. 511 |-> grad3[1 + (p[i % 256] % 12)]] ]

\* a seed whose shuffle starts from what the tables hold
seedCarrying(T, value) ==
  Bind(Shuffle([p |-> [i \in 0 .. 255 |-> i], n |-> value + T.perm[0]], 255),
    LAMBDA p : Extend(p))

\* seed(value): the module tables T after the call
seed(T, value) ==
  Bind(Shuffle([p |-> [i \in 0 .. 255 |-> i], n |-> value], 255),
    LAMBDA p : Extend(p))

\* one corner of noise2D: t = 0.5 - x*x - y*y; 0 if t < 0, else t^4 * (g . (x, y))
Corner2(T, gi, x, y) ==
  Bind((NS \div 2 - NMul(x, x)) - NMul(y, y), LAMBDA t :
    IF t < 0 THEN 0
    ELSE Bind(NMul(t, t), LAMBDA tt :
           NMul(NMul(tt, tt), T.gradP[gi][1] * x + T.gradP[gi][2] * y)))

\* noise2D(x, y)
noise2D(T, x, y) ==
  LET s == NMul(x + y, F2)
      i == NFloor(x + s)
      j == NFloor(y + s)
      t == (i + j) * G2
      x0 == x - (i * NS - t)
      y0 == y - (j * NS - t)
      i1 == IF x0 > y0 THEN 1 ELSE 0
      j1 == IF x0 > y0 THEN 0 ELSE 1
      ii == i % 256
      jj == j % 256
  IN  70 * (Corner2(T, ii + T.perm[jj], x0, y0)
            + Corner2(T, ii + i1 + T.perm[jj + j1],
                      (x0 - i1 * NS) + G2, (y0 - j1 * NS) + G2)
            + Corner2(T, ii + 1 + T.perm[jj + 1],
                      (x0 - NS) + 2 * G2, (y0 - NS) + 2 * G2))

\* one corner of noise3D: t = 0.6 - x*x - y*y - z*z
Corner3(T, gi, x, y, z) ==
  Bind((((6 * NS) \div 10 - NMul(x, x)) - NMul(y, y)) - NMul(z, z), LAMBDA t :
    IF t < 0 THEN 0
    ELSE Bind(NMul(t, t), LAMBDA tt :
           NMul(NMul(tt, tt), T.gradP[gi][1] * x + T.gradP[gi][2] * y
                                + T.gradP[gi][3] * z)))

\* the simplex noise3D picks: <<i1, j1, k1, i2, j2, k2>>
Simplex3(x0, y0, z0) ==
  IF x0 >= y0
  THEN IF y0 >= z0 THEN <<1, 0, 0, 1, 1, 0>>
       ELSE IF x0 >= z0 THEN <<1, 0, 0, 1, 0, 1>>
       ELSE <<0, 0, 1, 1, 0, 1>>
  ELSE IF y0 < z0 THEN <<0, 0, 1, 0, 1, 1>>
       ELSE IF x0 < z0 THEN <<0, 1, 0, 0, 1, 1>>
       ELSE <<0, 1, 0, 1, 1, 0>>

\* noise3D(x, y, z)
noise3D(T, x, y, z) ==
  LET s == NMul(x + y + z, F3)
      i == NFloor(x + s)
      j == NFloor(y + s)
      k == NFloor(z + s)
      t == (i + j + k) * G3
      x0 == x - (i * NS - t)
      y0 == y - (j * NS - t)
      z0 == z - (k * NS - t)
      o == Simplex3(x0, y0, z0)
      ii == i % 256
      jj == j % 256
      kk == k % 256
  IN  32 * (Corner3(T, ii + T.perm[jj + T.perm[kk]], x0, y0, z0)
            + Corner3(T, ii + o[1] + T.perm[jj + o[2] + T.perm[kk + o[3]]],
                      (x0 - o[1] * NS) + G3, (y0 - o[2] * NS) + G3,
                      (z0 - o[3] * NS) + G3)
            + Corner3(T, ii + o[4] + T.perm[jj + o[5] + T.perm[kk + o[6]]],
                      (x0 - o[4] * NS) + 2 * G3, (y0 - o[5] * NS) + 2 * G3,
                      (z0 - o[6] * NS) + 2 * G3)
            + Corner3(T, ii + 1 + T.perm[jj + 1 + T.perm[kk + 1]],
                      (x0 - NS) + 3 * G3, (y0 - NS) + 3 * G3,
                      (z0 - NS) + 3 * G3))

\* the loop of fbm from octave i on: a is <<total, amplitude, frequency,
\* maxValue>>
RECURSIVE FbmFrom(_, _, _, _, _, _, _, _)
FbmFrom(T, x, y, octaves, persistence, lacunarity, i, a) ==
  IF i >= octaves THEN a
  ELSE Bind(<< a[1] + NMul(noise2D(T, NMul(x, a[3]), NMul(y, a[3])), a[2]),
               NMul(a[2], persistence), NMul(a[3], lacunarity), a[4] + a[2] >>,
         LAMBDA a1 :
           FbmFrom(T, x, y, octaves, persistence, lacunarity, i + 1, a1))

\* fbm(x, y, octaves, persistence, lacunarity): total / maxValue, 0 / 0 = NaN
fbm(T, x, y, octaves, persistence, lacunarity) ==
  Bind(FbmFrom(T, x, y, octaves, persistence, lacunarity, 0, <<0, NS, NS, 0>>),
    LAMBDA a : IF a[4] = 0 THEN NaN ELSE RoundDiv(a[1] * NS, a[4]))

----------------------------------------------------------------------------
(* Simplex noise: the calls a host makes *)

\* seed values: that of LiquidMorph, two more, one of them negative
Seeds == {42, 7, -5}

\* the points noise2D, noise3D and fbm are evaluated at
Points2D == { <<(123 * NS) \div 100, (456 * NS) \div 100>>,
              <<-(4 * NS) \div 10, (9 * NS) \div 10>> }
Points3D == { <<NS \div 2, -(3 * NS) \div 2, (5 * NS) \div 2>> }
PointsFbm == { <<(3 * NS) \div 10, (7 * NS) \div 10>> }

\* the octave counts fbm is called with: the default, and none
FbmOctaves == {4, 0}

\* const perm = new Uint8Array(512); const gradP = new Array(512)
EmptyTables ==
  [perm |-> [i \in 0 .. 511 |-> 0], gradP |-> [i \in 0 .. 511 |-> <<>>]]

NoiseIdle ==
  /\ tables = EmptyTables
  /\ lastSeed = 0
  /\ noiseCall = [op |-> "load", args |-> <<>>, result |-> 0]
  /\ seeded = {}
  /\ firstTables = [v \in Seeds |-> EmptyTables]
  /\ valued = {}
  /\ firstValues = [q \in Seeds \X Points2D |-> 0]
  /\ nNoiseCalls = 0
  /\ ownSeed = <<>>

\* the module as loaded: its own seed() call has run, Math.random() * 65536
\* having come out as one of the seed values that are not negative
NoiseInit ==
  /\ \E v \in {w \in Seeds : w >= 0} :
       /\ tables = seed(EmptyTables, v)
       /\ lastSeed = v
       /\ seeded = {v}
       /\ firstTables = [w \in Seeds |->
                           IF w = v THEN seed(EmptyTables, v) ELSE EmptyTables]
  /\ noiseCall = [op |-> "load", args |-> <<>>, result |-> 0]
  /\ valued = {}
  /\ firstValues = [q \in Seeds \X Points2D |-> 0]
  /\ nNoiseCalls = 0
  /\ ownSeed = <<>>

NoiseSeed ==
  \E v \in Seeds :
    /\ nNoiseCalls < MaxNoiseCalls
    /\ \E T \in {seed(tables, v)} :
         /\ tables' = T
         /\ firstTables' = IF v \in seeded THEN firstTables
                            ELSE [firstTables EXCEPT ![v] = T]
    /\ lastSeed' = v
    /\ seeded' = seeded \cup {v}
    /\ noiseCall' = [op |-> "seed", args |-> <<v>>, result |-> 0]
    /\ nNoiseCalls' = nNoiseCalls + 1
    /\ UNCHANGED <<valued, firstValues, ownSeed, notNoise>>

Noise2D ==
  \E q \in Points2D :
    /\ nNoiseCalls < MaxNoiseCalls
    /\ \E r \in {noise2D(tables, q[1], q[2])} :
         /\ noiseCall' = [op |-> "noise2D", args |-> q, result |-> r]
         /\ firstValues' = IF <<lastSeed, q>> \in valued THEN firstValues
                            ELSE [firstValues EXCEPT ![<<lastSeed, q>>] = r]
    /\ valued' = valued \cup {<<lastSeed, q>>}
    /\ nNoiseCalls' = nNoiseCalls + 1
    /\ UNCHANGED <<tables, lastSeed, seeded, firstTables, ownSeed, notNoise>>

Noise3D ==
  \E q \in Points3D :
    /\ nNoiseCalls < MaxNoiseCalls
    /\ noiseCall' = [op |-> "noise3D", args |-> q,
                     result |-> noise3D(tables, q[1], q[2], q[3])]
    /\ nNoiseCalls' = nNoiseCalls + 1
    /\ UNCHANGED <<tables, lastSeed, seeded, firstTables, valued,
                   firstValues, ownSeed, notNoise>>

NoiseFbm ==
  \E q \in PointsFbm, octaves \in FbmOctaves :
    /\ nNoiseCalls < MaxNoiseCalls
    /\ noiseCall' = [op |-> "fbm", args |-> q \o <<octaves>>,
                     result |-> fbm(tables, q[1], q[2], octaves, NS \div 2,
                                    2 * NS)]
    /\ nNoiseCalls' = nNoiseCalls + 1
    /\ UNCHANGED <<tables, lastSeed, seeded, firstTables, valued,
                   firstValues, ownSeed, notNoise>>

NoiseNext == NoiseSeed \/ Noise2D \/ Noise3D \/ NoiseFbm

\* The consumers of noise.js that seed it when they are constructed, with the
\* value each passes to seed(): LiquidMorph passes 42, FlowField a random
\* number below 1000.  Each evaluates noise2D in its animation frames.
ConsumerSeeds == [LiquidMorph |-> {42}, FlowField |-> {7}]

ConsumerNew ==
  \E c \in DOMAIN ConsumerSeeds :
    \E v \in ConsumerSeeds[c] :
      /\ nNoiseCalls < MaxNoiseCalls
      /\ \E T \in {seed(tables, v)} :
           /\ tables' = T
           /\ firstTables' = IF v \in seeded THEN firstTables
                              ELSE [firstTables EXCEPT ![v] = T]
      /\ lastSeed' = v
      /\ seeded' = seeded \cup {v}
      /\ noiseCall' = [op |-> "seed", args |-> <<v>>, result |-> 0, by |-> c]
      /\ nNoiseCalls' = nNoiseCalls + 1
      /\ ownSeed' = [d \in (DOMAIN ownSeed) \cup {c} |->
                       IF d = c THEN v ELSE ownSeed[d]]
      /\ UNCHANGED <<valued, firstValues, notNoise>>

ConsumerFrame ==
  \E c \in DOMAIN ownSeed, q \in Points2D :
    /\ nNoiseCalls < MaxNoiseCalls
    /\ \E r \in {noise2D(tables, q[1], q[2])} :
         /\ noiseCall' = [op |-> "noise2D", args |-> q, result |-> r,
                          by |-> c]
         /\ firstValues' = IF <<lastSeed, q>> \in valued THEN firstValues
                            ELSE [firstValues EXCEPT ![<<lastSeed, q>>] = r]
    /\ valued' = valued \cup {<<lastSeed, q>>}
    /\ nNoiseCalls' = nNoiseCalls + 1
    /\ UNCHANGED <<tables, lastSeed, seeded, firstTables, ownSeed, notNoise>>

ConsumerNext == ConsumerNew \/ ConsumerFrame

----------------------------------------------------------------------------
(* The TYPO tracker and the App state machine *)

MaxKeys == 5

TYPO_KEYS == <<"T", "Y", "P", "O">>

\* key.toUpperCase(), for the keys used here
toUpperCase(key) ==
  CASE key = "t" -> "T"
    [] key = "y" -> "Y"
    [] key = "p" -> "P"
    [] key = "o" -> "O"
    [] key = "s" -> "S"
    [] OTHER -> key

\* isTypoKey(key)
isTypoKey(key) ==
  \E i \in DOMAIN TYPO_KEYS : TYPO_KEYS[i] = toUpperCase(key)

\* createTypoTracker(onComplete): currentIndex = 0, timeoutId = null (0 here);
\* timers holds the handles of the timers set and neither cleared nor run
NewTypoTracker ==
  [currentIndex |-> 0, timeoutId |-> 0, timers |-> {}, nextTimer |-> 1]

\* clearTimeout(id)
clearTimeout(t, id) == [t EXCEPT !.timers = @ \ {id}]

\* reset() of the tracker
trackerReset(t) ==
  IF t.timeoutId # 0
  THEN [clearTimeout(t, t.timeoutId) EXCEPT !.currentIndex = 0,
                                            !.timeoutId = 0]
  ELSE [t EXCEPT !.currentIndex = 0]

\* track(key): the tracker after the call, and whether onComplete was called
track(t, key) ==
  LET t1 == IF t.timeoutId # 0 THEN clearTimeout(t, t.timeoutId) ELSE t
  IN  IF toUpperCase(key) = TYPO_KEYS[t1.currentIndex + 1]
      THEN IF t1.currentIndex + 1 = Len(TYPO_KEYS)
           THEN [tracker |-> trackerReset([t1 EXCEPT !.currentIndex = @ + 1]),
                 completed |-> TRUE]
           ELSE [tracker |-> [t1 EXCEPT !.currentIndex = @ + 1,
                                        !.timeoutId = t1.nextTimer,
                                        !.timers = @ \cup {t1.nextTimer},
                                        !.nextTimer = @ + 1],
                 completed |-> FALSE]
      ELSE [tracker |-> trackerReset(t1), completed |-> FALSE]

\* getProgress()
getProgress(t) == t.currentIndex

\* the last four of the keys tracked
LastFour(keys) ==
  IF Len(keys) > 4 THEN SubSeq(keys, Len(keys) - 3, Len(keys)) ELSE keys

NoTrackCall == [op |-> "new", key |-> "", completed |-> FALSE]

TrackerIdle ==
  /\ tracker = NewTypoTracker
  /\ typed = <<>>
  /\ elapsed = FALSE
  /\ trackCall = NoTrackCall
  /\ nKeys = 0

\* the keys a caller passes to track()
TrackedKeys == {"T", "Y", "P", "O", "t"}

\* tracker.track(key)
Track ==
  \E key \in TrackedKeys :
    /\ nKeys < MaxKeys
    /\ \E r \in {track(tracker, key)} :
         /\ tracker' = r.tracker
         /\ trackCall' = [op |-> "track", key |-> key,
                          completed |-> r.completed]
    /\ typed' = LastFour(Append(typed, [key |-> toUpperCase(key),
                                        soon |-> ~elapsed]))
    /\ elapsed' = FALSE
    /\ nKeys' = nKeys + 1
    /\ UNCHANGED <<app, appCall, notApp>>

\* the timeout passes without a call of track()
Elapse ==
  /\ nKeys > 0
  /\ ~elapsed
  /\ elapsed' = TRUE
  /\ UNCHANGED <<tracker, typed, trackCall, nKeys, app, appCall, notApp>>

\* the timer set by track() runs reset()
TimerFires ==
  \E id \in tracker.timers :
    /\ elapsed
    /\ tracker' = trackerReset(clearTimeout(tracker, id))
    /\ trackCall' = [op |-> "timer", key |-> "", completed |-> FALSE]
    /\ UNCHANGED <<typed, elapsed, nKeys, app, appCall, notApp>>

TrackerNext == Track \/ Elapse \/ TimerFires

STATES == {"loading", "ready", "intro", "main", "transitioning"}

VALID_TRANSITIONS ==
  [s \in STATES |->
     CASE s = "loading" -> {"ready"}
       [] s = "ready" -> {"intro"}
       [] s = "intro" -> {"main"}
       [] s = "main" -> {"transitioning"}
       [] s = "transitioning" -> {"main"}]

\* new App() after init() has attached the handlers and awaits
\* waitForProgress(); previousState null is "null" here. pressedKeys is the
\* set of the keyboard handler, isPlaying the flag of the IntroSequence,
\* plays the calls of play() so far, playing the calls of play() under way
NewApp ==
  [state |-> "loading", previousState |-> "null", loading |-> TRUE,
   pressedKeys |-> {}, isPlaying |-> FALSE, plays |-> 0, playing |-> 0]

\* a setState that changes the state whatever the transition
setStateUnchecked(a, newState) ==
  [app |-> [a EXCEPT !.previousState = a.state, !.state = newState],
   ok |-> TRUE]

\* setState(newState): the App after the call, and what the call returned
setState(a, newState) ==
  IF a.state = newState THEN [app |-> a, ok |-> FALSE]
  ELSE IF newState \notin VALID_TRANSITIONS[a.state]
  THEN [app |-> a, ok |-> FALSE]
  ELSE [app |-> [a EXCEPT !.previousState = a.state, !.state = newState],
        ok |-> TRUE]

\* IntroSequence.play(triggeredKey), up to its first await
play(a) ==
  IF a.isPlaying THEN [a EXCEPT !.plays = @ + 1]
  ELSE [a EXCEPT !.plays = @ + 1, !.isPlaying = TRUE, !.playing = @ + 1]

\* triggerIntro(keyLetter)
triggerIntro(a) ==
  IF a.state # "ready" THEN a
  ELSE LET r == setState(a, "intro")
       IN  IF ~r.ok THEN r.app ELSE play(r.app)

\* onIntroComplete()
onIntroComplete(a) == setState(a, "main").app

NoAppCall == [op |-> "new", arg |-> "", ok |-> FALSE]

AppOff ==
  /\ app = [NewApp EXCEPT !.loading = FALSE]
  /\ appCall = NoAppCall

AppIdle == TrackerIdle /\ AppOff

AppInit ==
  /\ TrackerIdle
  /\ app = NewApp
  /\ appCall = NoAppCall

\* init() resumes after waitForProgress(): this.setState(STATES.READY)
InitDone ==
  /\ app.loading
  /\ \E r \in {setState(app, "ready")} :
       /\ app' = [r.app EXCEPT !.loading = FALSE]
       /\ appCall' = [op |-> "init", arg |-> "ready", ok |-> r.ok]
  /\ UNCHANGED <<tracker, typed, elapsed, trackCall, nKeys, notApp>>

\* the keys of the keydown events: four of TYPO, one of STUDIO only
AppKeys == {"t", "y", "p", "o", "s"}

\* handleKeyDown(event) and the onValidKey handler of the App
KeyDown ==
  \E key \in AppKeys :
    /\ nKeys < MaxKeys
    /\ nKeys' = nKeys + 1
    /\ IF toUpperCase(key) \in app.pressedKeys
       THEN /\ appCall' = [op |-> "repeat", arg |-> key, ok |-> FALSE]
            /\ UNCHANGED <<tracker, typed, elapsed, trackCall, app>>
       ELSE LET a == [app EXCEPT !.pressedKeys = @ \cup {toUpperCase(key)}]
            IN  IF a.state = "ready" /\ isTypoKey(toUpperCase(key))
                THEN \E r \in {track(tracker, toUpperCase(key))} :
                       /\ tracker' = r.tracker
                       /\ trackCall' = [op |-> "track", key |-> key,
                                        completed |-> r.completed]
                       /\ typed' = LastFour(Append(typed,
                                      [key |-> toUpperCase(key),
                                       soon |-> ~elapsed]))
                       /\ elapsed' = FALSE
                       /\ app' = IF r.completed THEN triggerIntro(a) ELSE a
                       /\ appCall' = [op |-> "keydown", arg |-> key,
                                      ok |-> r.completed]
                ELSE /\ app' = a
                     /\ appCall' = [op |-> "keydown", arg |-> key,
                                    ok |-> FALSE]
                     /\ UNCHANGED <<tracker, typed, elapsed, trackCall>>
    /\ UNCHANGED notApp

\* handleKeyUp(event)
KeyUp ==
  \E key \in app.pressedKeys :
    /\ nKeys < MaxKeys
    /\ nKeys' = nKeys + 1
    /\ app' = [app EXCEPT !.pressedKeys = @ \ {key}]
    /\ appCall' = [op |-> "keyup", arg |-> key, ok |-> FALSE]
    /\ UNCHANGED <<tracker, typed, elapsed, trackCall, notApp>>

\* sceneManager.onKeyClick(keyModel) for a TYPO key and for a STUDIO key
KeyClick ==
  \E letter \in {"T", "S"} :
    /\ nKeys < MaxKeys
    /\ nKeys' = nKeys + 1
    /\ app' = IF app.state = "ready" /\ letter = "T" THEN triggerIntro(app)
              ELSE app
    /\ appCall' = [op |-> "click", arg |-> letter,
                   ok |-> app.state = "ready" /\ letter = "T"]
    /\ UNCHANGED <<tracker, typed, elapsed, trackCall, notApp>>

\* play() reaches its end, or its catch: isPlaying = false, onIntroComplete()
IntroComplete ==
  /\ app.playing > 0
  /\ app' = onIntroComplete([app EXCEPT !.isPlaying = FALSE,
                                        !.playing = @ - 1])
  /\ appCall' = [op |-> "introComplete", arg |-> "main",
                 ok |-> setState(app, "main").ok]
  /\ UNCHANGED <<tracker, typed, elapsed, trackCall, nKeys, notApp>>

\* app.setState(newState) by any other caller, a section change for one
CallSetState ==
  \E newState \in STATES :
    /\ nKeys < MaxKeys
    /\ nKeys' = nKeys + 1
    /\ \E r \in {setState(app, newState)} :
         /\ app' = r.app
         /\ appCall' = [op |-> "setState", arg |-> newState, ok |-> r.ok]
    /\ UNCHANGED <<tracker, typed, elapsed, trackCall, notApp>>

AppNext ==
  \/ InitDone \/ KeyDown \/ KeyUp \/ KeyClick \/ IntroComplete
  \/ CallSetState \/ Elapse \/ TimerFires

----------------------------------------------------------------------------
(* The hosts: FluidSim, Creatures and PhysicsType on the page *)

\* The page runs one task at a time: the constructor of a host, a frame
\* callback or an event handler.  animate() is followed through its calls:
\* the step of the engine, which is entered and left, then the request for
\* the next frame.
Hosts == {"FluidSim", "Creatures", "PhysicsType"}

\* the event handlers of a host, and whether the handler calls a mutator of
\* the engine (addDensity / addVelocity, applyRadialForce) when it runs
Handlers ==
  [ FluidSim |-> {"mousedown", "mouseup", "mousemove"},
    Creatures |-> {"mousemove", "click"},
    PhysicsType |-> {"mousemove"} ]

Mutates(h, e) ==
  \/ h.kind = "FluidSim" /\ e = "mousedown"
  \/ h.kind = "FluidSim" /\ e = "mousemove" /\ h.isMouseDown
  \/ h.kind = "PhysicsType" /\ e = "mousemove"

NoTask == [task |-> "none", pc |-> "none"]

\* the host as its constructor leaves it when init() is about to call animate()
NewHost(kind) ==
  [ kind |-> kind, animationFrame |-> 0, pending |-> {}, nextHandle |-> 1,
    inStep |-> FALSE, steps |-> 0, fired |-> 0, isMouseDown |-> FALSE,
    disposed |-> FALSE ]

\* two requests where animate() makes one
animateRequestTwice(h) ==
  [h EXCEPT !.animationFrame = h.nextHandle + 1,
            !.pending = @ \cup {h.nextHandle, h.nextHandle + 1},
            !.nextHandle = @ + 2]

\* this.animationFrame = requestAnimationFrame(() => this.animate())
animateRequest(h) ==
  [h EXCEPT !.animationFrame = h.nextHandle,
            !.pending = @ \cup {h.nextHandle},
            !.nextHandle = @ + 1]

\* dispose(): if (this.animationFrame) cancelAnimationFrame(this.animationFrame)
hostDispose(h) ==
  [h EXCEPT !.pending = IF h.animationFrame # 0 THEN @ \ {h.animationFrame}
                        ELSE @,
            !.disposed = TRUE]

HostIdle ==
  /\ host = NewHost("none")
  /\ running = NoTask
  /\ hostCall = [op |-> "none", mutates |-> FALSE, inStep |-> FALSE]

PageIdle == HostIdle /\ AppIdle

\* new FluidSim(...), new Creatures(...) or new PhysicsType(...) has reached
\* the animate() call that ends init()
PageInit ==
  /\ \E kind \in Hosts : host = NewHost(kind)
  /\ running = [task |-> "construct", pc |-> "step"]
  /\ hostCall = [op |-> "none", mutates |-> FALSE, inStep |-> FALSE]

\* animate(): this.solver.step() / this.flock.update() / this.system.step()
\* is entered
AnimateStepBegin ==
  /\ running.pc = "step" /\ ~host.inStep
  /\ host' = [host EXCEPT !.inStep = TRUE]
  /\ UNCHANGED <<running, hostCall, notPage>>

\* ... and returns; render() follows and changes nothing of the host
AnimateStepEnd ==
  /\ running.pc = "step" /\ host.inStep
  /\ host' = [host EXCEPT !.inStep = FALSE, !.steps = @ + 1]
  /\ running' = [running EXCEPT !.pc = "request"]
  /\ UNCHANGED <<hostCall, notPage>>

\* animate(): the request for the next frame, which ends the task
AnimateRequest ==
  /\ running.pc = "request"
  /\ host' = animateRequest(host)
  /\ running' = NoTask
  /\ UNCHANGED <<hostCall, notPage>>

\* the browser runs a pending frame callback
Frame ==
  \E handle \in host.pending :
    /\ running = NoTask
    /\ host.fired < MaxFrames
    /\ host' = [host EXCEPT !.pending = @ \ {handle}, !.fired = @ + 1]
    /\ running' = [task |-> "frame", pc |-> "step"]
    /\ UNCHANGED <<hostCall, notPage>>

\* an input event on the wrapper runs its handler
Pointer ==
  \E e \in Handlers[host.kind] :
    /\ running = NoTask
    /\ ~host.disposed
    /\ hostCall' = [op |-> e, mutates |-> Mutates(host, e),
                    inStep |-> host.inStep]
    /\ host' = [host EXCEPT !.isMouseDown =
                  IF host.kind = "FluidSim" /\ e = "mousedown" THEN TRUE
                  ELSE IF host.kind = "FluidSim" /\ e = "mouseup" THEN FALSE
                  ELSE @]
    /\ UNCHANGED <<running, notPage>>

\* dispose() is called; the wrapper leaves the document
Dispose ==
  /\ running = NoTask
  /\ ~host.disposed
  /\ host' = hostDispose(host)
  /\ hostCall' = [op |-> "dispose", mutates |-> FALSE, inStep |-> host.inStep]
  /\ UNCHANGED <<running, notPage>>

PageNext ==
  \/ AnimateStepBegin \/ AnimateStepEnd \/ AnimateRequest
  \/ Frame \/ Pointer \/ Dispose

----------------------------------------------------------------------------
(* FluidSolver: the calls a host makes *)

\* (size, diffusion, viscosity) a solver is built with
FluidConfigs == {<<3, FS \div 2, FS \div 4>>, <<4, FS \div 2, 0>>,
                 <<4, 0, FS \div 4>>}

\* positions passed to addDensity / addVelocity: below, inside and beyond the
\* grid on either axis, whole and fractional
Positions(N) ==
  { <<-(3 * FS) \div 2, (3 * FS) \div 2>>,
    <<(5 * FS) \div 4, (7 * FS) \div 4>>,
    <<(N + 1) * FS, -3 * FS>>,
    <<FS, N * FS + FS \div 2>>,
    <<(N - 1) * FS, 0>>,
    <<N * FS, N * FS>> }

Amounts == {FS, F32Max}
Velocities == {<<2 * FS, -FS>>, <<F32Max, -F32Max>>}

\* the (x, y, amount) and (x, y, amountX, amountY) calls interleaved with step()
DensityCalls(N) ==
  { <<(5 * FS) \div 4, (7 * FS) \div 4, FS>>,
    <<(5 * FS) \div 4, (7 * FS) \div 4, F32Max>>,
    <<-(3 * FS) \div 2, (3 * FS) \div 2, F32Max>> }
VelocityCalls(N) ==
  { <<(5 * FS) \div 4, (7 * FS) \div 4, 2 * FS, -FS>>,
    <<(5 * FS) \div 4, (7 * FS) \div 4, F32Max, -F32Max>>,
    <<(N + 1) * FS, N * FS + FS \div 2, -FS, 3 * FS>> }

NoCall == [op |-> "new", x |-> 0, y |-> 0, a |-> 0, b |-> 0, index |-> 0]

\* no array in the hands of the host
NoArray == [array |-> 0, taken |-> <<>>]

FluidIdle ==
  /\ solver = NewFluidSolver(3, 0, 0)
  /\ stepLog = <<>>
  /\ fluidCall = NoCall
  /\ added = 0
  /\ nAdds = 0
  /\ nSteps = 0
  /\ held = NoArray
  /\ nReads = 0

FluidInit ==
  /\ \E c \in FluidConfigs : solver = NewFluidSolver(c[1], c[2], c[3])
  /\ stepLog = <<>>
  /\ fluidCall = NoCall
  /\ added = 0
  /\ nAdds = 0
  /\ nSteps = 0
  /\ held = NoArray
  /\ nReads = 0

CallAddDensity(x, y, a) ==
  /\ nAdds < MaxAdds
  /\ solver' = addDensity(solver, x, y, a)
  /\ fluidCall' = [op |-> "addDensity", x |-> x, y |-> y, a |-> a, b |-> 0,
                   index |-> idx(solver.size, Floor(x), Floor(y))]
  /\ added' = added + a
  /\ nAdds' = nAdds + 1
  /\ UNCHANGED <<stepLog, nSteps, held, nReads, notFluid>>

CallAddVelocity(x, y, a, b) ==
  /\ nAdds < MaxAdds
  /\ solver' = addVelocity(solver, x, y, a, b)
  /\ fluidCall' = [op |-> "addVelocity", x |-> x, y |-> y, a |-> a, b |-> b,
                   index |-> idx(solver.size, Floor(x), Floor(y))]
  /\ nAdds' = nAdds + 1
  /\ UNCHANGED <<stepLog, added, nSteps, held, nReads, notFluid>>

AddDensity == \E c \in DensityCalls(solver.size) : CallAddDensity(c[1], c[2], c[3])

AddVelocity ==
  \E c \in VelocityCalls(solver.size) : CallAddVelocity(c[1], c[2], c[3], c[4])

FluidStep ==
  /\ nSteps < MaxSteps
  /\ \E T \in {step(solver)} :
       /\ solver' = T.s
       /\ stepLog' = T.log
  /\ fluidCall' = [NoCall EXCEPT !.op = "step"]
  /\ nSteps' = nSteps + 1
  /\ UNCHANGED <<added, nAdds, held, nReads, notFluid>>

FluidClear ==
  /\ fluidCall.op \notin {"new", "clear"}
  /\ solver' = clear(solver)
  /\ fluidCall' = [NoCall EXCEPT !.op = "clear"]
  /\ added' = 0
  /\ UNCHANGED <<stepLog, nAdds, nSteps, held, nReads, notFluid>>

FluidNext == AddDensity \/ AddVelocity \/ FluidStep \/ FluidClear

InitFluid == FluidInit /\ VerletIdle /\ FlockIdle /\ NoiseIdle /\ PageIdle

SpecFluid == InitFluid /\ [][FluidNext]_vars

\* const density = this.solver.getDensity(): the host keeps the array
GetDensity ==
  /\ nReads < MaxReads
  /\ held' = [array |-> getDensity(solver), taken |-> solver.density]
  /\ fluidCall' = [NoCall EXCEPT !.op = "getDensity"]
  /\ nReads' = nReads + 1
  /\ UNCHANGED <<solver, stepLog, added, nAdds, nSteps, notFluid>>

FluidReadsNext == AddDensity \/ FluidStep \/ FluidClear \/ GetDensity

SpecFluidReads == InitFluid /\ [][FluidReadsNext]_vars

\* addDensity / addVelocity at any of the positions, with no step between
AddDensityAnywhere ==
  \E pos \in Positions(solver.size), a \in Amounts :
    CallAddDensity(pos[1], pos[2], a)

AddVelocityAnywhere ==
  \E pos \in Positions(solver.size), v \in Velocities :
    CallAddVelocity(pos[1], pos[2], v[1], v[2])

FluidAddsNext == AddDensityAnywhere \/ AddVelocityAnywhere \/ FluidClear

SpecFluidAdds == InitFluid /\ [][FluidAddsNext]_vars

\* a solver large enough for a cell whose neighbours' neighbours are all
\* interior, with a diffusion the numbers can carry and no viscosity
DiffusionConfigs == {<<7, FS \div 20, 0>>, <<7, FS \div 10, 0>>}

\* addDensity at the centre cell and next to it
CentreCalls(N) ==
  { <<(N \div 2) * FS, (N \div 2) * FS, 100 * FS>>,
    <<(N \div 2) * FS + FS \div 5, (N \div 2) * FS + (9 * FS) \div 10, FS>>,
    <<(N \div 2 - 1) * FS, (N \div 2) * FS, 50 * FS>> }

DiffusionInit ==
  /\ \E c \in DiffusionConfigs : solver = NewFluidSolver(c[1], c[2], c[3])
  /\ stepLog = <<>>
  /\ fluidCall = NoCall
  /\ added = 0
  /\ nAdds = 0
  /\ nSteps = 0
  /\ held = NoArray
  /\ nReads = 0

AddDensityCentre ==
  \E c \in CentreCalls(solver.size) : CallAddDensity(c[1], c[2], c[3])

DiffusionNext == AddDensityCentre \/ FluidStep \/ FluidClear

InitDiffusion == DiffusionInit /\ VerletIdle /\ FlockIdle /\ NoiseIdle /\ PageIdle

SpecDiffusion == InitDiffusion /\ [][DiffusionNext]_vars

----------------------------------------------------------------------------
(* FluidSolver: properties *)

AllFinite(x) == \A c \in DOMAIN x : IsFinite(x[c])

\* C1: after every step(), at every non-corner edge cell, vx on the left and
\* right walls is the negation of vx in the adjacent interior column, vy on the
\* top and bottom walls is the negation of vy in the adjacent interior row, and
\* density, vx on the top and bottom walls and vy on the left and right walls
\* equal the adjacent interior value; the corners are the mean of their two
\* edge neighbours.  No edge cell keeps a value older than the interior's.
BoundaryAfterStep ==
  fluidCall.op = "step" =>
    LET N == solver.size
        vx == solver.vx
        vy == solver.vy
        d == solver.density
    IN  /\ \A k \in 1 .. (N - 2) :
             /\ vx[k * N] = FNeg(vx[1 + k * N])
             /\ vx[N - 1 + k * N] = FNeg(vx[N - 2 + k * N])
             /\ vy[k] = FNeg(vy[k + N])
             /\ vy[k + (N - 1) * N] = FNeg(vy[k + (N - 2) * N])
             /\ vx[k] = vx[k + N]
             /\ vx[k + (N - 1) * N] = vx[k + (N - 2) * N]
             /\ vy[k * N] = vy[1 + k * N]
             /\ vy[N - 1 + k * N] = vy[N - 2 + k * N]
             /\ d[k] = d[k + N]
             /\ d[k + (N - 1) * N] = d[k + (N - 2) * N]
             /\ d[k * N] = d[1 + k * N]
             /\ d[N - 1 + k * N] = d[N - 2 + k * N]
        /\ \A x \in {vx, vy, d} :
             /\ x[0] = Half(x[1], x[N])
             /\ x[N - 1] = Half(x[N - 2], x[2 * N - 1])
             /\ x[(N - 1) * N] = Half(x[(N - 1) * N + 1], x[(N - 2) * N])
             /\ x[N * N - 1] = Half(x[N * N - 2], x[(N - 1) * N - 1])

\* a step() has just run and left finite non-zero velocities and densities on
\* the walls
BoundaryAfterStepReached ==
  /\ fluidCall.op = "step"
  /\ solver.size = 4
  /\ IsFinite(solver.vx[4]) /\ solver.vx[4] # 0
  /\ IsFinite(solver.vy[1]) /\ solver.vy[1] # 0
  /\ IsFinite(solver.density[4]) /\ solver.density[4] # 0

Repeat(seq, k) == [n \in 1 .. (k * Len(seq)) |-> seq[1 + ((n - 1) % Len(seq))]]

SolveLog(xn) == Repeat(<< <<"sweep", xn>>, <<"setBnd", xn>> >>, 4)

DiffuseLog(xn) == << <<"diffuse", xn>> >> \o SolveLog(xn)

ProjectLog(vxn, vyn, pn, divn) ==
  << <<"project", vxn>>, <<"setBnd", divn>>, <<"setBnd", pn>> >>
    \o SolveLog(pn) \o << <<"setBnd", vxn>>, <<"setBnd", vyn>> >>

AdvectLog(dn) == << <<"advect", dn>>, <<"setBnd", dn>> >>

\* C5: step() runs diffuse x-velocity, diffuse y-velocity, project, advect
\* x-velocity, advect y-velocity, project, diffuse density, advect density, in
\* this order, and every linear solve in them is exactly 4 sweeps, each
\* followed by a boundary pass, whatever the grid size and the field values.
StepPhaseOrder ==
  IF nSteps = 0 THEN stepLog = <<>>
  ELSE stepLog =
         DiffuseLog("vxPrev") \o DiffuseLog("vyPrev")
           \o ProjectLog("vxPrev", "vyPrev", "vx", "vy")
           \o AdvectLog("vx") \o AdvectLog("vy")
           \o ProjectLog("vx", "vy", "vxPrev", "vyPrev")
           \o DiffuseLog("densityPrev") \o AdvectLog("density")

\* a second step() has run, on non-zero fields
StepPhaseOrderReached ==
  /\ fluidCall.op = "step"
  /\ nSteps = 2
  /\ \E c \in DOMAIN solver.density : solver.density[c] # 0
  /\ \E c \in DOMAIN solver.vx : solver.vx[c] # 0

\* the cell (clamp(floor(x), 0, N-1), clamp(floor(y), 0, N-1))
ClampedCell(N, x, y) ==
  LET cl(v) == IF Floor(v) < 0 THEN 0
               ELSE IF Floor(v) > N - 1 THEN N - 1 ELSE Floor(v)
  IN  cl(x) + cl(y) * N

\* the array x with a added to cell t and every other cell as it was
AddedAt(x, t, a) == [c \in DOMAIN x |-> IF c = t THEN F32(FAdd(x[c], a)) ELSE x[c]]

\* C6: for every position, in or outside the grid, addDensity(x, y, a) adds a
\* to the one density cell at the clamped floor of (x, y) and changes no other
\* cell and no other field; addVelocity does so for that cell of vx and vy;
\* the index used lies in 0 .. N*N-1.
AddTouchesOneCell ==
  [][ LET N == solver.size
          t == ClampedCell(N, fluidCall'.x, fluidCall'.y)
      IN  /\ fluidCall'.op = "addDensity" =>
                /\ fluidCall'.index \in Cells(N)
                /\ solver' = [solver EXCEPT
                                !.density = AddedAt(@, t, fluidCall'.a)]
          /\ fluidCall'.op = "addVelocity" =>
                /\ fluidCall'.index \in Cells(N)
                /\ solver' = [solver EXCEPT
                                !.vx = AddedAt(@, t, fluidCall'.a),
                                !.vy = AddedAt(@, t, fluidCall'.b)] ]_vars

\* addVelocity has just been called with a position beyond the grid on both
\* axes, after an addDensity with a position left of the grid
AddTouchesOneCellReached ==
  /\ fluidCall.op = "addVelocity"
  /\ fluidCall.x >= solver.size * FS /\ fluidCall.y >= solver.size * FS
  /\ solver.vx[solver.size * solver.size - 1] # 0
  /\ solver.density[solver.size] # 0

RECURSIVE TotalFrom(_, _)
TotalFrom(x, c) ==
  IF c \notin DOMAIN x THEN 0 ELSE x[c] + TotalFrom(x, c + 1)

Total(x) == TotalFrom(x, 0)

\* the solver holds the amount a in the cell c0 and 0 everywhere else, in
\* every field
OnlyAt(s, c0, a) ==
  /\ \A c \in DOMAIN s.density : s.density[c] = (IF c = c0 THEN a ELSE 0)
  /\ \A f \in FieldNames \ {"density"} : \A c \in DOMAIN s[f] : s[f][c] = 0

\* C11 as stated: on a cleared solver with zero velocity, after addDensity of
\* 100 at the centre cell and one step(), the four orthogonal neighbours of
\* that cell hold a positive density and the sum of density over all cells
\* is the 100 of before the step up to a small error (one part in twenty is
\* allowed here).
DiffusionConservesDensity ==
  [][ LET N == solver.size
          c0 == idx(N, N \div 2, N \div 2)
      IN  (fluidCall'.op = "step" /\ OnlyAt(solver, c0, 100 * FS)) =>
            /\ \A c \in {c0 - 1, c0 + 1, c0 - N, c0 + N} :
                 solver'.density[c] > 0
            /\ 20 * Abs(Total(solver'.density) - 100 * FS) <= 100 * FS ]_vars

\* what the array in the hands of the host holds now: the values of the
\* field that refers to that array, or, if no field does, what it held when
\* it was handed out
HeldContents ==
  IF \E f \in FieldNames : solver.arrays[f] = held.array
  THEN solver[CHOOSE f \in FieldNames : solver.arrays[f] = held.array]
  ELSE held.taken

\* C15 as stated: the array getDensity() returned holds the N*N density
\* values as of the call, whatever addDensity, step and clear calls were made
\* on the solver since.
DensitySnapshotKept ==
  held # NoArray =>
    /\ DOMAIN HeldContents = Cells(solver.size)
    /\ HeldContents = held.taken

\* C16: in every reachable state the six fields are the arrays the
\* constructor allocated, each of length N*N, and after clear() every entry
\* of all six is 0.
FieldsAllocatedOnce ==
  /\ solver.arrays = Allocated
  /\ \A f \in FieldNames : DOMAIN solver[f] = Cells(solver.size)
  /\ fluidCall.op = "clear" =>
       \A f \in FieldNames : \A c \in Cells(solver.size) : solver[f][c] = 0

\* clear() has been called on a solver that density and velocity were added
\* to and that was stepped twice
FieldsAllocatedOnceReached ==
  /\ fluidCall.op = "clear"
  /\ nSteps = 2 /\ nAdds = 2
  /\ solver.size = 4
  /\ solver.arrays = Allocated
  /\ \A f \in FieldNames : \A c \in Cells(solver.size) : solver[f][c] = 0

----------------------------------------------------------------------------
(* Verlet engine: specifications *)

InitVerlet == VerletInit /\ FluidIdle /\ FlockIdle /\ NoiseIdle /\ PageIdle

SpecVerlet == InitVerlet /\ [][VerletNext]_vars

InitConstraint == ConstraintInit /\ FluidIdle /\ FlockIdle /\ NoiseIdle /\ PageIdle

SpecConstraint == InitConstraint /\ [][ConstraintNext]_vars

----------------------------------------------------------------------------
(* Verlet engine: properties *)

\* C2: a particle created with pinned = true stays at its creation position
\* (x, y) through every step, applyForce, applyForceToParticle,
\* applyRadialForce and setBounds call, whatever the settings, the constraints
\* attached to it and the bounds.
PinnedKeepsPosition ==
  \A i \in DOMAIN created :
    created[i].pinned =>
      /\ vsys.particles[i].x = created[i].x
      /\ vsys.particles[i].y = created[i].y

\* a step() has run on a pinned particle tied by a constraint to a free one,
\* which the step has moved
PinnedKeepsPositionReached ==
  /\ verletCall.op = "step"
  /\ \E k \in DOMAIN vsys.constraints :
       LET c == vsys.constraints[k]
       IN  /\ created[c.p1].pinned
           /\ ~created[c.p2].pinned
           /\ c.length > 0
           /\ vsys.particles[c.p2].y # created[c.p2].y

InitBounds == BoundsInit /\ FluidIdle /\ FlockIdle /\ NoiseIdle /\ PageIdle

SpecBounds == InitBounds /\ [][BoundsNext]_vars

\* the particle p lies within the bounds b
Within(p, b) ==
  /\ b.minX <= p.x /\ p.x <= b.maxX
  /\ b.minY <= p.y /\ p.y <= b.maxY

\* C12: after every VerletSystem.step() with bounds set (minX <= maxX,
\* minY <= maxY) every unpinned particle has minX <= x <= maxX and
\* minY <= y <= maxY, whatever the relaxation passes of that step did.
InsideBoundsAfterStep ==
  (verletCall.op = "step" /\ vsys.bounds.set
     /\ vsys.bounds.minX <= vsys.bounds.maxX
     /\ vsys.bounds.minY <= vsys.bounds.maxY) =>
    \A i \in DOMAIN vsys.particles :
      ~vsys.particles[i].pinned => Within(vsys.particles[i], vsys.bounds)

\* a step has ended with both particles unpinned, the first on the lower
\* bound of both axes and the second on an upper bound, nearer to each other
\* than the constraint between them asks: its relaxation pushed them apart
\* and the collision brought them back
InsideBoundsAfterStepReached ==
  /\ verletCall.op = "step" /\ vsys.bounds.set
  /\ vsys.bounds.minX < vsys.bounds.maxX
  /\ ~vsys.particles[1].pinned
  /\ vsys.particles[1].x = vsys.bounds.minX
  /\ vsys.particles[1].y = vsys.bounds.minY
  /\ vsys.particles[2].y = vsys.bounds.maxY
  /\ getDistance(vsys.particles[1], vsys.particles[2])
       < vsys.constraints[1].length

\* the position v and previous position old of one axis after a collision
\* with the bounds lo, hi at position x and implicit velocity vel: beyond a
\* bound the position is the bound and the new implicit velocity is
\* -bounce * vel; inside, nothing changes
Reflected(v, old, x, oldx, lo, hi, bounce) ==
  /\ x < lo => (v = lo /\ v - old = -Mul(x - oldx, bounce))
  /\ x > hi => (v = hi /\ v - old = -Mul(x - oldx, bounce))
  /\ (lo <= x /\ x <= hi) => (v = x /\ old = oldx)

\* C13: when Particle.constrain finds an unpinned particle beyond a bound on
\* an axis, it puts the position on that axis at the bound and the previous
\* position where the new implicit velocity (current minus previous) on that
\* axis is -bounce times the implicit velocity on entry; the other axis, if
\* inside, is unchanged, as are a particle inside the bounds and every other
\* particle.
CollisionReflects ==
  [][ verletCall'.op = "constrain" =>
        LET i == verletCall'.i
            b == verletCall'.bounds
            p == vsys.particles[i]
            q == vsys'.particles[i]
        IN  /\ \A j \in DOMAIN vsys.particles \ {i} :
                 vsys'.particles[j] = vsys.particles[j]
            /\ ~p.pinned =>
                 /\ Reflected(q.x, q.oldX, p.x, p.oldX, b[1], b[3], b[5])
                 /\ Reflected(q.y, q.oldY, p.y, p.oldY, b[2], b[4], b[5])
                 /\ q = [p EXCEPT !.x = q.x, !.oldX = q.oldX,
                                  !.y = q.y, !.oldY = q.oldY] ]_vars

\* a constrain call has put a falling unpinned particle on the lower edge
\* (maxY) of the bounds and turned its velocity upwards, its x being inside
\* the bounds
CollisionReflectsReached ==
  /\ verletCall.op = "constrain"
  /\ LET q == vsys.particles[verletCall.i]
         b == verletCall.bounds
     IN  /\ ~q.pinned
         /\ q.y = b[4] /\ q.y - q.oldY < 0
         /\ b[1] < q.x /\ q.x < b[3]

\* a and b differ by no more than the rounding of a few operations
Near(a, b) == Abs(a - b) <= 3

\* C7 as stated: with exactly one endpoint pinned, solve() leaves the pinned
\* endpoint where it is and moves the other by the whole correction
\* stiffness * (restLength - dist) along the line joining them, so that with
\* stiffness 1 the distance is restLength after that one solve.
WholeCorrectionToUnpinned ==
  [][ verletCall'.op = "solve" =>
        LET c == vsys.constraints[verletCall'.i]
            p1 == vsys.particles[c.p1]
            p2 == vsys.particles[c.p2]
            q1 == vsys'.particles[c.p1]
            q2 == vsys'.particles[c.p2]
            dx == p2.x - p1.x
            dy == p2.y - p1.y
            dist == getDistance(p1, p2)
        IN  (p1.pinned # p2.pinned /\ dist > 0) =>
              /\ p1.pinned => q1 = p1
              /\ p2.pinned => q2 = p2
              /\ p1.pinned =>
                    /\ Near(q2.x - p2.x, OffsetWhole(dx, c, dist))
                    /\ Near(q2.y - p2.y, OffsetWhole(dy, c, dist))
              /\ p2.pinned =>
                    /\ Near(p1.x - q1.x, OffsetWhole(dx, c, dist))
                    /\ Near(p1.y - q1.y, OffsetWhole(dy, c, dist))
              /\ c.stiffness = FS => Near(getDistance(q1, q2), c.length) ]_vars

\* C8: with both endpoints unpinned and apart, solve() moves them by equal
\* and opposite displacements along the line joining them, each of size
\* stiffness * |restLength - dist| / 2: the midpoint stays where it was and
\* the distance becomes dist + stiffness * (restLength - dist), whatever the
\* masses.
EqualOppositeCorrection ==
  [][ verletCall'.op = "solve" =>
        LET c == vsys.constraints[verletCall'.i]
            p1 == vsys.particles[c.p1]
            p2 == vsys.particles[c.p2]
            q1 == vsys'.particles[c.p1]
            q2 == vsys'.particles[c.p2]
            dx == p2.x - p1.x
            dy == p2.y - p1.y
            dist == getDistance(p1, p2)
            whole == RoundDiv(c.stiffness * (c.length - dist), FS)
        IN  (~p1.pinned /\ ~p2.pinned /\ dist > 0) =>
              /\ q1.x - p1.x = -(q2.x - p2.x)
              /\ q1.y - p1.y = -(q2.y - p2.y)
              /\ q1.x + q2.x = p1.x + p2.x
              /\ q1.y + q2.y = p1.y + p2.y
              /\ Near(2 * Hypot(q2.x - p2.x, q2.y - p2.y), Abs(whole))
              /\ 2 * Abs((q2.x - p2.x) * dy - (q2.y - p2.y) * dx)
                   <= Abs(dx) + Abs(dy)
              /\ whole > 0 => (q2.x - p2.x) * dx + (q2.y - p2.y) * dy >= 0
              /\ whole < 0 => (q2.x - p2.x) * dx + (q2.y - p2.y) * dy <= 0
              /\ Near(getDistance(q1, q2), Abs(dist + whole))
              /\ q1.mass = p1.mass /\ q2.mass = p2.mass ]_vars

\* a solve() has just pulled two unpinned endpoints of unequal mass towards
\* each other, the constraint being stretched beyond its rest length
EqualOppositeCorrectionReached ==
  /\ verletCall.op = "solve"
  /\ nSolves = 1
  /\ LET c == vsys.constraints[1]
         p1 == vsys.particles[1]
         p2 == vsys.particles[2]
     IN  /\ ~p1.pinned /\ ~p2.pinned
         /\ p1.mass # p2.mass
         /\ c.stiffness = FS \div 2
         /\ c.length > 0
         /\ p1.x # created[1].x
         /\ nMoves = 1
         /\ getDistance(p1, p2) > c.length


----------------------------------------------------------------------------
(* Boids: specification *)

InitFlock == FlockInit /\ FluidIdle /\ VerletIdle /\ NoiseIdle /\ PageIdle

SpecFlock == InitFlock /\ [][FlockNext]_vars

----------------------------------------------------------------------------
(* Boids: properties *)

\* C3: after every Flock.update(), with or without predator and attractor,
\* the speed sqrt(vx^2 + vy^2) of every boid is at most its maxSpeed.  The
\* comparison is to the last digit the numbers carry: rescaling a velocity to
\* length maxSpeed rounds both of its components, and the speed recomputed
\* from them may round one unit up.
SpeedWithinMax ==
  nUpdates > 0 =>
    \A i \in DOMAIN flock.boids :
      Hypot(flock.boids[i].vx, flock.boids[i].vy) <= flock.boids[i].maxSpeed + 1

\* an update with a predator and an attractor has cut the speed of one of
\* three boids down to its maxSpeed
SpeedWithinMaxReached ==
  /\ flockCall.op = "update"
  /\ flockCall.predator # <<>> /\ flockCall.attractor # <<>>
  /\ Len(flock.boids) = 3
  /\ \E i \in DOMAIN flock.boids :
       /\ flock.boids[i].maxSpeed = FS
       /\ Hypot(flock.boids[i].vx, flock.boids[i].vy) >= FS - 1
       /\ flock.boids[i].vx # 0 /\ flock.boids[i].vy # 0

\* C9: after every Flock.update() every boid has 0 <= x <= width and
\* 0 <= y <= height for the flock's current size: a boid whose integrated
\* position (its old position plus its new velocity) is beyond width or
\* height is placed at 0 on that axis, one whose position is below 0 at width
\* or height.
InsideAfterUpdate ==
  [][ flockCall'.op = "update" =>
        \A i \in DOMAIN flock'.boids :
          LET b == flock'.boids[i]
              ix == flock.boids[i].x + b.vx
              iy == flock.boids[i].y + b.vy
          IN  /\ 0 <= b.x /\ b.x <= flock'.width
              /\ 0 <= b.y /\ b.y <= flock'.height
              /\ ix > flock.width => b.x = 0
              /\ ix < 0 => b.x = flock.width
              /\ iy > flock.height => b.y = 0
              /\ iy < 0 => b.y = flock.height
              /\ (0 <= ix /\ ix <= flock.width) => b.x = ix
              /\ (0 <= iy /\ iy <= flock.height) => b.y = iy ]_vars

\* an update has wrapped one boid from beyond the right edge to 0 and another
\* from below 0 to the right and bottom edges
InsideAfterUpdateReached ==
  /\ flockCall.op = "update"
  /\ \E i, j \in DOMAIN flock.boids :
       /\ flock.boids[i].x = 0 /\ flock.boids[i].vx > 0
       /\ flock.boids[j].x = flock.width /\ flock.boids[j].vx < 0
       /\ flock.boids[j].y = flock.height /\ flock.boids[j].vy < 0
       /\ flock.width > 0

\* the flock f with the weights and radii of the options o, a default
\* standing in for an option that o does not supply
AsConfigured(f, o) ==
  [f EXCEPT !.separationWeight = Param(o, "separationWeight", (3 * FS) \div 2),
            !.alignmentWeight = Param(o, "alignmentWeight", FS),
            !.cohesionWeight = Param(o, "cohesionWeight", FS),
            !.perceptionRadius = Param(o, "perceptionRadius", 50 * FS),
            !.separationRadius = Param(o, "separationRadius", 25 * FS)]

\* C14 as stated: whatever options the constructor was given, a weight or
\* radius of 0 included, update() moves every boid by the force
\* separationWeight * separation + alignmentWeight * alignment +
\* cohesionWeight * cohesion taken with the configured weights and radii, a
\* default being used only for an option that was not supplied.
ForceAsConfigured ==
  [][ flockCall'.op = "update" =>
        flock'.boids =
          flockUpdate(AsConfigured(flock, configured), flockCall'.predator,
                      flockCall'.attractor).boids ]_vars

----------------------------------------------------------------------------
(* Constraints and their particles: specification and property *)

InitOwned == VerletInit /\ FluidIdle /\ FlockIdle /\ NoiseIdle /\ PageIdle

SpecOwned == InitOwned /\ [][OwnedNext]_vars

\* C24 as stated: in every state reached through addParticle, addConstraint
\* on particles addParticle returned earlier, createChain, createGrid, step
\* and clear, both endpoints of every constraint of getConstraints() are
\* particles of getParticles(), and clear() leaves both collections empty.
ConstraintsJoinOwnParticles ==
  /\ \A k \in DOMAIN vsys.constraints :
       /\ vsys.constraints[k].p1 \in DOMAIN vsys.particles
       /\ vsys.constraints[k].p2 \in DOMAIN vsys.particles
  /\ verletCall.op = "clear"
     => vsys.particles = <<>> /\ vsys.constraints = <<>>

----------------------------------------------------------------------------
(* Radial force: specification and property *)

\* two particles, the second of mass 1 or 2, that a host pushes with
\* Particle.applyForce and with a radial force centred on one of them or next
\* to the first
RadialNext == MoveEndpoint \/ ApplyRadialForceAt

SpecRadial == InitConstraint /\ [][RadialNext]_vars

\* (1 - d / radius) * strength / mass along the component dc of the offset
\* from the centre, for a particle of mass m at distance d
RadialShift(dc, d, m) ==
  RoundDiv(RoundDiv(dc * (RadialRadius - d) * RadialStrength, d * RadialRadius)
             * FS, m)

\* C23: applyRadialForce(x, y, radius, strength) moves the unpinned particles
\* at a distance d from (x, y) with 0 < d < radius, each along its offset from
\* (x, y) by (1 - d / radius) * strength / mass, and no other: a pinned
\* particle, a particle at distance 0 and a particle at distance >= radius
\* stay where they are, and no previous position changes.
RadialForcePushesAway ==
  [][ verletCall'.op = "applyRadialForce"
      => \A i \in DOMAIN vsys.particles :
           LET p == vsys.particles[i]
               q == vsys'.particles[i]
               dx == p.x - verletCall'.centre[1]
               dy == p.y - verletCall'.centre[2]
               d == Hypot(dx, dy)
           IN  /\ <<q.oldX, q.oldY, q.pinned, q.mass>>
                    = <<p.oldX, p.oldY, p.pinned, p.mass>>
               /\ IF ~p.pinned /\ 0 < d /\ d < RadialRadius
                  THEN /\ q.x = p.x + RadialShift(dx, d, p.mass)
                       /\ q.y = p.y + RadialShift(dy, d, p.mass)
                  ELSE q.x = p.x /\ q.y = p.y ]_vars

\* a radial force centred on the first particle has pushed the second, of
\* mass 2 and within the radius, away from it, after a push had taken a
\* particle beyond the radius
RadialForcePushesAwayReached ==
  /\ verletCall.op = "applyRadialForce"
  /\ nMoves > 0
  /\ Len(vsys.particles) = 2
  /\ verletCall.centre = <<vsys.particles[1].x, vsys.particles[1].y>>
  /\ LET q == vsys.particles[2]
     IN  /\ ~q.pinned /\ q.mass = 2 * FS
         /\ q.x # q.oldX
         /\ Hypot(q.x - verletCall.centre[1], q.y - verletCall.centre[2])
              < RadialRadius

----------------------------------------------------------------------------
(* Zero distances: specification and property *)

CoincidentNext ==
  \/ SolveConstraint \/ ApplyRadialForceAt
  \/ FlockSeparation \/ FlockSeek \/ FlockFlee

InitCoincident == CoincidentInit /\ CoincidentFlockInit /\ FluidIdle /\ NoiseIdle /\ PageIdle

SpecCoincident == InitCoincident /\ [][CoincidentNext]_vars

\* the flock as the boid at index me sees it once every flockmate at its own
\* position is taken out; the boid itself comes first
Apart(f, me) ==
  [f EXCEPT !.boids =
     <<f.boids[me]>> \o
     SelectSeq(f.boids, LAMBDA o : o.x # f.boids[me].x \/ o.y # f.boids[me].y)]

\* C19: a zero distance causes no division and no state change.  solve() on
\* a constraint whose endpoints coincide leaves every particle as it was;
\* applyRadialForce leaves a particle at the centre of the force as it was;
\* separation() returns what it returns for the flock without the flockmates
\* at distance 0; seek() and flee() return (0, 0) for a target at the boid's
\* own position.
ZeroDistanceHarmless ==
  [][ /\ ( /\ verletCall'.op = "solve"
           /\ LET c == vsys.constraints[verletCall'.i]
              IN  /\ vsys.particles[c.p1].x = vsys.particles[c.p2].x
                  /\ vsys.particles[c.p1].y = vsys.particles[c.p2].y )
         => vsys' = vsys
      /\ verletCall'.op = "applyRadialForce"
         => \A i \in DOMAIN vsys.particles :
              <<vsys.particles[i].x, vsys.particles[i].y>> = verletCall'.centre
              => vsys'.particles[i] = vsys.particles[i]
      /\ flockCall'.op = "separation"
         => flockCall'.result = separation(Apart(flock, flockCall'.i), 1)
      /\ ( /\ flockCall'.op \in {"seek", "flee"}
           /\ flockCall'.target = <<flock.boids[flockCall'.i].x,
                                    flock.boids[flockCall'.i].y>> )
         => flockCall'.result = <<0, 0>>
      /\ flock' = flock ]_vars

\* the constraint between two unpinned particles in one place has been
\* solved, a radial force has then been centred on them, and seek() has been
\* called for a moving boid with its own position as the target while another
\* boid shared that position
ZeroDistanceHarmlessReached ==
  /\ verletCall.op = "applyRadialForce"
  /\ nSolves > 0
  /\ \A i \in DOMAIN vsys.particles :
       /\ ~vsys.particles[i].pinned
       /\ <<vsys.particles[i].x, vsys.particles[i].y>> = verletCall.centre
  /\ flockCall.op = "seek"
  /\ LET b == flock.boids[flockCall.i]
     IN  /\ flockCall.target = <<b.x, b.y>>
         /\ b.vx # 0
         /\ \E j \in DOMAIN flock.boids :
              /\ j # flockCall.i
              /\ flock.boids[j].x = b.x /\ flock.boids[j].y = b.y

----------------------------------------------------------------------------
(* Boid accumulators: specification and property *)

InitBoid == BoidInit /\ FluidIdle /\ VerletIdle /\ NoiseIdle /\ PageIdle

SpecBoid == InitBoid /\ [][BoidNext]_vars

\* C20: after every Flock.update() the accumulator (ax, ay) of every boid is
\* (0, 0); a force passed to Boid.applyForce leaves the velocity as it is,
\* enters the velocity in the boid's next update() (velocity + the forces
\* passed since its last update, within maxSpeed) and in no later one: at
\* every moment the accumulator holds the forces passed since the boid's last
\* update and nothing older.
ForceSpentInNextUpdate ==
  [][ /\ flockCall'.op = "update"
         => \A i \in DOMAIN flock'.boids :
              flock'.boids[i].ax = 0 /\ flock'.boids[i].ay = 0
      /\ flockCall'.op = "applyForce"
         => LET b == flock.boids[flockCall'.i]
                c == flock'.boids[flockCall'.i]
            IN  <<c.vx, c.vy, c.x, c.y>> = <<b.vx, b.vy, b.x, b.y>>
      /\ flockCall'.op = "boidUpdate"
         => LET b == flock.boids[flockCall'.i]
                c == flock'.boids[flockCall'.i]
                vx == b.vx + SumOf(pushed[flockCall'.i], 1)
                vy == b.vy + SumOf(pushed[flockCall'.i], 2)
            IN  /\ c.vx = LimitSpeed(vx, Hypot(vx, vy), b.maxSpeed)
                /\ c.vy = LimitSpeed(vy, Hypot(vx, vy), b.maxSpeed)
                /\ c.ax = 0 /\ c.ay = 0
      /\ \A i \in DOMAIN flock'.boids :
           /\ flock'.boids[i].ax = SumOf(pushed'[i], 1)
           /\ flock'.boids[i].ay = SumOf(pushed'[i], 2) ]_vars

\* the boid created at (15, 12) with velocity (0, 0.8) was given the force
\* (0.05, -0.1) twice and then updated twice: the first update made its
\* velocity (0.1, 0.6), the second kept it, and it stands at (15.2, 13.2)
ForceSpentInNextUpdateReached ==
  /\ flockCall.op = "boidUpdate"
  /\ flockCall.i = 1
  /\ nUpdates = 2
  /\ pushed[1] = <<>>
  /\ LET b == flock.boids[1]
     IN  /\ <<b.vx, b.vy>> = <<FS \div 10, (6 * FS) \div 10>>
         /\ <<b.x, b.y>> = <<15 * FS + FS \div 5, 13 * FS + FS \div 5>>
         /\ <<b.ax, b.ay>> = <<0, 0>>

----------------------------------------------------------------------------
(* Boids out of sight of each other: specification and property *)

InitLone == LoneInit /\ FluidIdle /\ VerletIdle /\ NoiseIdle /\ PageIdle

SpecLone == InitLone /\ [][FlockNext]_vars

\* the flock as update() has it when the turn of the boid at index k comes:
\* the boids before k have moved, k and the later ones have not
RECURSIVE Seen(_, _, _, _)
Seen(f, k, predator, attractor) ==
  IF k = 1 THEN f
  ELSE UpdateBoid(Seen(f, k - 1, predator, attractor), k - 1, predator,
                  attractor)

\* no other boid of f is nearer to the boid at index k than radius
NoneWithin(f, k, radius) ==
  \A i \in DOMAIN f.boids :
    i # k => Hypot(f.boids[i].x - f.boids[k].x, f.boids[i].y - f.boids[k].y)
               >= radius

\* update() leaves the velocity of the boid at index k of f as it was and
\* moves the boid by it, wrapping at the edges; g is the flock afterwards
Coasts(f, g, k) ==
  LET b == f.boids[k]
      c == g.boids[k]
  IN  /\ <<c.vx, c.vy>> = <<b.vx, b.vy>>
      /\ c.x = Wrap(b.x + b.vx, f.width)
      /\ c.y = Wrap(b.y + b.vy, f.height)

\* C21 as stated: in an update() with no predator and no attractor a boid
\* that has, when its turn comes, no other boid within perceptionRadius and a
\* speed of at most maxSpeed keeps its velocity and advances by it (then
\* wraps).
AloneInSightCoasts ==
  [][ ( /\ flockCall'.op = "update"
        /\ flockCall'.predator = <<>> /\ flockCall'.attractor = <<>> )
      => \A k \in DOMAIN flock.boids :
           ( /\ NoneWithin(Seen(flock, k, <<>>, <<>>), k, flock.perceptionRadius)
             /\ Hypot(flock.boids[k].vx, flock.boids[k].vy)
                  <= flock.boids[k].maxSpeed )
           => Coasts(flock, flock', k) ]_vars

\* C21, amended: the same for a boid that has no other boid within
\* perceptionRadius and none within separationRadius.
AloneCoasts ==
  [][ ( /\ flockCall'.op = "update"
        /\ flockCall'.predator = <<>> /\ flockCall'.attractor = <<>> )
      => \A k \in DOMAIN flock.boids :
           ( /\ NoneWithin(Seen(flock, k, <<>>, <<>>), k, flock.perceptionRadius)
             /\ NoneWithin(Seen(flock, k, <<>>, <<>>), k, flock.separationRadius)
             /\ Hypot(flock.boids[k].vx, flock.boids[k].vy)
                  <= flock.boids[k].maxSpeed )
           => Coasts(flock, flock', k) ]_vars

\* three boids, each out of sight and out of separation range of the others,
\* have been through two updates without predator or attractor, and one of
\* them is moving
AloneCoastsReached ==
  /\ flockCall.op = "update"
  /\ flockCall.predator = <<>> /\ flockCall.attractor = <<>>
  /\ nUpdates = 2
  /\ Len(flock.boids) = 3
  /\ flock.perceptionRadius = 12 * FS
  /\ \A k \in DOMAIN flock.boids :
       /\ NoneWithin(flock, k, flock.perceptionRadius + 2 * FS)
       /\ NoneWithin(flock, k, flock.separationRadius + 2 * FS)
  /\ \E k \in DOMAIN flock.boids : flock.boids[k].vy # 0

----------------------------------------------------------------------------
(* Steering vectors: specification and property *)

InitSteer == SteerInit /\ FluidIdle /\ VerletIdle /\ NoiseIdle /\ PageIdle

SpecSteer == InitSteer /\ [][SteerNext]_vars

\* C22: whatever the flock has become, the vector that separation(),
\* alignment(), cohesion() or seek() returns for a boid is no longer than the
\* boid's maxForce, and the vector that flee() returns no longer than
\* 2 * maxForce.  Lengths are compared to the last digit the numbers carry:
\* scaling a vector to length maxForce rounds both of its components.
SteeringWithinMaxForce ==
  /\ flockCall.op \in {"separation", "alignment", "cohesion", "seek"}
     => Hypot(flockCall.result[1], flockCall.result[2])
          <= flock.boids[flockCall.i].maxForce + 1
  /\ flockCall.op = "flee"
     => Hypot(flockCall.result[1], flockCall.result[2])
          <= 2 * flock.boids[flockCall.i].maxForce + 1

\* after an update, flee() from a point near the boid has returned a vector
\* cut down to 2 * maxForce, longer than maxForce
SteeringWithinMaxForceReached ==
  /\ flockCall.op = "flee"
  /\ nUpdates > 0
  /\ flockCall.target # <<flock.boids[flockCall.i].x, flock.boids[flockCall.i].y>>
  /\ Hypot(flockCall.result[1], flockCall.result[2])
       >= 2 * flock.boids[flockCall.i].maxForce - 1
  /\ Hypot(flockCall.result[1], flockCall.result[2])
       > flock.boids[flockCall.i].maxForce

----------------------------------------------------------------------------
(* Simplex noise: specification and properties *)

InitNoise == NoiseInit /\ FluidIdle /\ VerletIdle /\ FlockIdle /\ PageIdle

SpecNoise == InitNoise /\ [][NoiseNext]_vars

\* C4: seed(v) is deterministic and replaces the tables whole: whatever seeds
\* were applied and whatever noise was evaluated before, the tables after
\* seed(v) are those its first application built; noise2D, noise3D and fbm
\* leave the tables as they are, and noise2D(x, y) after seed(v) returns what
\* its first evaluation after a seed(v) returned.
SeedDeterministic ==
  /\ tables = firstTables[lastSeed]
  /\ noiseCall.op = "noise2D" =>
       noiseCall.result = firstValues[<<lastSeed, noiseCall.args>>]

\* noise2D is evaluated again at a point after the seed was changed and then
\* set back, with noise3D or fbm evaluated in between, and returns a non-zero
\* value
SeedDeterministicReached ==
  /\ noiseCall.op = "noise2D"
  /\ noiseCall.result # 0
  /\ nNoiseCalls = 4
  /\ Cardinality(seeded) = 2
  /\ Cardinality(valued) = 1
  /\ lastSeed = 42

\* C17 as stated: after seed(v), for every v in the 32-bit integer range,
\* entries 0 .. 255 of perm hold each of 0 .. 255 exactly once, entries
\* 256 .. 511 repeat them, and gradP[i] is grad3[perm[i] mod 12] for every i.
TablesArePermutation ==
  /\ {tables.perm[i] : i \in 0 .. 255} = 0 .. 255
  /\ \A i \in 0 .. 255 : tables.perm[256 + i] = tables.perm[i]
  /\ \A i \in 0 .. 511 : tables.gradP[i] = grad3[1 + (tables.perm[i] % 12)]

\* C18 as stated: noise2D, noise3D and fbm return a defined finite number
\* for all finite coordinates, fbm for every octave count (0 included),
\* persistence and lacunarity.
NoiseAlwaysFinite ==
  noiseCall.op \in {"noise2D", "noise3D", "fbm"} => IsFinite(noiseCall.result)

----------------------------------------------------------------------------
(* Consumers of the noise module: specification and property *)

SpecConsumers == InitNoise /\ [][ConsumerNext]_vars

\* C25 as stated, for the consumers of noise.js: the noise values a consumer
\* obtains after it has seeded are those of its own seed, whatever another
\* consumer constructed in between has passed to seed().
OwnSeedKept ==
  noiseCall.op = "noise2D"
  => noiseCall.result =
       noise2D(seed(EmptyTables, ownSeed[noiseCall.by]), noiseCall.args[1],
               noiseCall.args[2])

----------------------------------------------------------------------------
(* The animation loop of a host: specification and property *)

InitPage == PageInit /\ AppIdle /\ FluidIdle /\ VerletIdle /\ FlockIdle /\ NoiseIdle

SpecPage == InitPage /\ [][PageNext]_vars

\* C26: a host has at most one frame callback pending, and none while its
\* animate() runs; its engine has stepped once in the constructor and once
\* per callback run, a step being over before the next callback can run; no
\* handler that calls addDensity, addVelocity or applyRadialForce runs while
\* a step is in progress.
OneFrameCallbackPending ==
  /\ Cardinality(host.pending) <= 1
  /\ running # NoTask => host.pending = {}
  /\ host.steps = host.fired + (IF running.pc = "step" THEN 0 ELSE 1)
  /\ running = NoTask => ~host.inStep
  /\ hostCall.mutates => ~hostCall.inStep

\* after two frames of a FluidSim a mousemove with the button down has added
\* fluid, between two steps, with the next frame requested
OneFrameCallbackPendingReached ==
  /\ host.kind = "FluidSim"
  /\ host.fired = 2 /\ host.steps = 3
  /\ Cardinality(host.pending) = 1
  /\ hostCall.op = "mousemove" /\ hostCall.mutates
  /\ running = NoTask

----------------------------------------------------------------------------
(* A constraint away from its rest length: specification and property *)

\* A system without gravity and without bounds holding two particles at rest,
\* the first at the origin, joined by a constraint of stiffness 1 whose length
\* the host then sets; the host only steps the system, once per frame.
\* Particles at rest move along the line that joins them only, and step()
\* treats every direction alike, so the second particle starts on an axis.
SettleStarts == {<<10 * FS, 0>>, <<3 * FS, 0>>, <<FS, 0>>, <<0, 20 * FS>>}
SettleLengths == {0, 2 * FS, 5 * FS, 10 * FS}
SettlePins == {<<FALSE, FALSE>>, <<TRUE, FALSE>>, <<FALSE, TRUE>>}
\* the options of the system: friction and iterations by default, or the
\* number of relaxation passes given
SettleOptions ==
  {[gravity |-> 0], [gravity |-> 0, iterations |-> 1],
   [gravity |-> 0, iterations |-> 0]}

SettleInit ==
  /\ \E o \in SettleOptions, pos \in SettleStarts, L \in SettleLengths,
        pin \in SettlePins :
       /\ vsys = [addConstraint(
                    addParticle(addParticle(NewVerletSystem(o), 0, 0, pin[1]),
                                pos[1], pos[2], pin[2]),
                    1, 2, FS)
                   EXCEPT !.constraints[1].length = L]
       /\ created = << [x |-> 0, y |-> 0, pinned |-> pin[1]],
                       [x |-> pos[1], y |-> pos[2], pinned |-> pin[2]] >>
  /\ verletCall = NoVerletCall
  /\ nVerletCalls = 0
  /\ nMoves = 0
  /\ nSolves = 0
  /\ detached = <<>>

\* system.step() in a frame of the animation loop
SettleStep ==
  /\ vsys' = verletStep(vsys)
  /\ verletCall' = [op |-> "step", i |-> 0]
  /\ UNCHANGED <<created, nVerletCalls, nMoves, nSolves, detached, notVerlet>>

SettleNext == SettleStep

InitSettle == SettleInit /\ FluidIdle /\ FlockIdle /\ NoiseIdle /\ PageIdle

SpecSettle == InitSettle /\ [][SettleNext]_vars

\* the animation loop requests a frame in every frame, so steps keep coming
SpecSettleFair == SpecSettle /\ WF_vars(SettleStep)

\* how far the constraint is from its rest length
SettleError ==
  LET c == vsys.constraints[1]
      e == getDistance(vsys.particles[c.p1], vsys.particles[c.p2]) - c.length
  IN  IF e < 0 THEN -e ELSE e

\* the last call was a step that left the constraint within 0.01 of its
\* rest length
Settled == verletCall.op = "step" /\ SettleError < FS \div 100

----------------------------------------------------------------------------
(* The order of the boids in an update: specification and property *)

\* A flock of two or three boids that see one another, updated by a host
\* with or without a predator and an attractor; the boids as they were
\* before the call are kept with the call.
OrderCounts == {2, 3}

OrderInit ==
  /\ \E count \in OrderCounts, o \in FlockOptions :
       \E draws \in [1 .. count -> RandomDraws] :
         /\ flock = NewFlock(count, 30 * FS, 20 * FS, o, draws)
         /\ configured = o
         /\ pushed = [i \in 1 .. count |-> <<>>]
  /\ flockCall = NoFlockCall
  /\ nUpdates = 0
  /\ nResizes = 0

\* flock.update(predator, attractor)
OrderedUpdate ==
  \E predator \in Points, attractor \in Points :
    /\ nUpdates < MaxUpdates
    /\ \E f \in {flockUpdate(flock, predator, attractor)} : flock' = f
    /\ flockCall' = [op |-> "update", predator |-> predator,
                     attractor |-> attractor, before |-> flock.boids]
    /\ nUpdates' = nUpdates + 1
    /\ pushed' = [i \in DOMAIN flock.boids |-> <<>>]
    /\ UNCHANGED <<nResizes, configured, notFlock>>

OrderNext == OrderedUpdate

InitOrder == OrderInit /\ FluidIdle /\ VerletIdle /\ NoiseIdle /\ PageIdle

SpecOrder == InitOrder /\ [][OrderNext]_vars

\* the flock f with the boids before index k as they are in after and the
\* boids from index k on as they are in before
Halfway(f, before, after, k) ==
  [f EXCEPT !.boids = [i \in DOMAIN @ |->
                         IF i < k THEN after[i] ELSE before[i]]]

\* the sequence s in the opposite order
Reversed(s) == [i \in DOMAIN s |-> s[Len(s) + 1 - i]]

\* C28: update() moves the boids one at a time in array order: the boid at
\* index k comes out as its forces, computed from the boids before it as
\* update() leaves them and from itself and the boids after it as they were
\* before the call, make it.
UpdateInArrayOrder ==
  flockCall.op = "update"
  => \A k \in DOMAIN flock.boids :
       flock.boids[k] =
         UpdateBoid(Halfway(flock, flockCall.before, flock.boids, k), k,
                    flockCall.predator, flockCall.attractor).boids[k]

\* an update whose outcome differs both from that of the same boids in the
\* opposite array order and from that of all boids moved at once
UpdateInArrayOrderReached ==
  /\ flockCall.op = "update"
  /\ LET f == [flock EXCEPT !.boids = flockCall.before]
         r == [flock EXCEPT !.boids = Reversed(flockCall.before)]
     IN  /\ flock.boids
              # Reversed(UpdateFrom(r, 1, flockCall.predator,
                                   flockCall.attractor).boids)
         /\ flock.boids
              # UpdateAtOnce(f, 1, flockCall.predator,
                             flockCall.attractor).boids

----------------------------------------------------------------------------
(* The TYPO tracker: specification and property *)

InitTracker ==
  TrackerIdle /\ AppOff /\ HostIdle /\ FluidIdle /\ VerletIdle /\ FlockIdle
  /\ NoiseIdle

SpecTracker == InitTracker /\ [][TrackerNext]_vars

\* the last four keys tracked are T, Y, P, O, each less than the timeout after
\* the one before
LastFourTypo ==
  /\ Len(typed) = 4
  /\ \A i \in 1 .. 4 : typed[i].key = TYPO_KEYS[i]
  /\ \A i \in 2 .. 4 : typed[i].soon

\* C29 as stated: onComplete is called in a track() call exactly when the
\* last four keys tracked are T, Y, P, O with less than the timeout between
\* them, whatever was tracked before, and after it is called getProgress()
\* is 0 and no reset timer is set.
TypoTypedExactly ==
  trackCall.op = "track"
  => /\ trackCall.completed <=> LastFourTypo
     /\ trackCall.completed
          => getProgress(tracker) = 0 /\ tracker.timers = {}

----------------------------------------------------------------------------
(* The App state machine: specification and property *)

InitApp ==
  AppInit /\ HostIdle /\ FluidIdle /\ VerletIdle /\ FlockIdle /\ NoiseIdle

SpecApp == InitApp /\ [][AppNext]_vars

\* C30: App.state changes only along the declared transitions, with
\* previousState the state left; a setState call that is not a declared
\* transition, or names the current state, returns false and leaves state
\* and previousState as they were; play() is called at most once.
StateFollowsTransitions ==
  [][/\ app'.state # app.state
        => /\ app'.state \in VALID_TRANSITIONS[app.state]
           /\ app'.previousState = app.state
     /\ app'.state = app.state => app'.previousState = app.previousState
     /\ appCall'.op = "setState" /\ nKeys' # nKeys
        => /\ appCall'.ok <=> appCall'.arg \in VALID_TRANSITIONS[app.state]
           /\ appCall'.ok <=> app'.state = appCall'.arg /\ app' # app
           /\ ~appCall'.ok => app' = app
     /\ app'.plays <= 1]_vars

\* TYPO was typed, the intro played once and ended, and a setState(READY) in
\* MAIN has been refused
StateFollowsTransitionsReached ==
  /\ app.state = "main" /\ app.previousState = "intro"
  /\ app.plays = 1 /\ app.playing = 0
  /\ LastFourTypo
  /\ appCall = [op |-> "setState", arg |-> "ready", ok |-> FALSE]

====
